---- MODULE Spec2Model ----
(***************************************************************************)
(* WinSpectorPro: the optimization pipeline (core/analyzer.py), the plan   *)
(* validator and plan generation (core/modules/ai_analyzer.py), and the    *)
(* restore point / action executor (core/modules/windows_optimizer.py).   *)
(*                                                                         *)
(* JSON values are modelled as records with a "kind" (or is_list/is_dict)  *)
(* tag, so that a value of the wrong type is a value of the model too.     *)
(* Python lists of which the code only tests membership (profiles,         *)
(* relevant_profiles) are sets.                                            *)
(***************************************************************************)
EXTENDS Integers, Sequences, FiniteSets, TLC

VARIABLES
    knowledge_base,   \* WinSpectorCore.knowledge_base / the kb a validator is built from
    user_profiles,    \* the active profile labels
    response,         \* the reasoning service's answer to the plan prompt
    submitted,        \* the plan as it was before the first validation
    previous,         \* the plan as it was before the latest validation
    plan,             \* the plan object (validate mutates it in place)
    validate_raised,  \* whether the latest _PlanValidator.validate raised ValueError
    outcome,          \* "none" | "returned" | "RuntimeError" | "Exception"
    error_logs,       \* number of logger.error calls of generate_distillation_plan
    passes,           \* number of validate calls made on the plan
    pc,               \* where run_autonomous_optimization is: "idle", a stage, or how it ended
    cancel_requested, \* what the is_cancelled predicate returns
    restore_result,   \* what the restore point command did
    running,          \* the sub-tasks in flight
    finished,         \* the sub-tasks of the run that have completed
    raised_tasks,     \* the sub-tasks of the run that raised
    stage_log,        \* the stages started, in order
    effects,          \* the kinds of work on the host started in the run
    executed,         \* the action plan handed to execute_action_plan
    background_tasks, \* WinSpectorCore.background_tasks
    checked,          \* what is_cancelled returned at each _check_cancellation, in order
    result,           \* how the run ended: "none" | "report" | "cancelled" | "error"
    progress,         \* the percent values passed to progress_callback, in order
    installed_services, \* the services that exist on the host
    script_result,    \* what the optimization script did
    debloat_summary,  \* session['debloat_summary']
    fs_files,         \* the files that exist on the host
    fs_dirs,          \* the directories that exist on the host
    locked,           \* the files whose deletion fails with an OSError
    junk_files_report, \* what find_junk_files_deep returned
    deep_cleanup_plan, \* the plan given to perform_deep_cleanup
    cleaner_todo,     \* what is left to do of the cleanup stage
    deleted,          \* the files and directories the cleaner has removed
    failed_deletions, \* the deletions counted as errors in a summary
    deep_summary,     \* the summary perform_deep_cleanup is adding up
    deep_removed,     \* what perform_deep_cleanup has removed from disk
    clock,            \* datetime.now(), in minutes
    last_scan_time,   \* WinSpectorCore._last_scan_time
    cached_system_components, \* WinSpectorCore._cached_system_components
    collect,          \* where _step_collect_data_for_ai is
    requests,         \* the data-collection requests made so far
    follow_ups,       \* the follow-up tasks created by asyncio.create_task
    tracked,          \* the tasks in WinSpectorCore.background_tasks
    shutdown_call,    \* where WinSpectorCore.shutdown is, and the tasks it gathers
    close_wait,       \* where the window's close handler is
    failed_calls,     \* the reasoning-service calls of the run that failed
    cleanup_errors,   \* the cleanup tasks whose summary counts failed items
    ai_time,          \* time.time(), in seconds
    ai_cache,         \* AIAnalyzer.cache: prompt hash -> (response_text, timestamp)
    call_count,       \* the calls of model.generate_content_async so far
    ai_requests,      \* the calls of _get_response_with_cache that await the model
    requests_made,    \* the number of calls of _get_response_with_cache so far
    last_returned,    \* how the call that ended last ended
    profile_response, \* the reasoning service's answer to the profile prompt
    profile_call,     \* what determine_user_profile did with it
    window,           \* MainWindow: page, buttons, self.worker, pending timers
    workers,          \* the AsyncWorker threads created so far
    signals,          \* the worker signals queued for the window's thread
    delivered,        \* the worker signals the window has handled
    dir_checks,       \* the threads of _cleanup_empty_dirs that perform_deep_cleanup started
    rmdir_log,        \* the directories path.rmdir() removed, with the thread
    scan_input,       \* a discovery: the scans that raise and the files of size 0
    scan_outcome      \* a discovery: what find_junk_files_deep did

validation_vars == <<submitted, previous, validate_raised, outcome, error_logs, passes>>
run_vars == <<checked, result, progress>>
executor_vars == <<installed_services, script_result, debloat_summary, cleanup_errors>>
pipeline_vars == <<pc, cancel_requested, restore_result, running, finished, raised_tasks,
                   stage_log, effects, executed, background_tasks, run_vars,
                   executor_vars>>
cleaner_vars == <<fs_files, fs_dirs, locked, junk_files_report, deep_cleanup_plan, cleaner_todo,
                  deleted, failed_deletions, deep_summary, deep_removed>>
cache_vars == <<clock, last_scan_time, cached_system_components, collect, requests>>
registry_vars == <<follow_ups, tracked, shutdown_call, close_wait>>
ai_vars == <<ai_time, ai_cache, call_count, ai_requests, requests_made, last_returned>>
profile_vars == <<profile_response, profile_call>>
window_vars == <<window, workers, signals, delivered>>
checks_vars == <<dir_checks, rmdir_log>>
scan_vars == <<scan_input, scan_outcome>>
session_vars == <<cache_vars, registry_vars, failed_calls, ai_vars, profile_vars, window_vars,
                  checks_vars, scan_vars>>
vars == <<knowledge_base, user_profiles, response, plan, validation_vars, pipeline_vars,
          cleaner_vars, session_vars>>

----------------------------------------------------------------------------
(* Bounds of the model *)

MaxRules == 2
MaxActions == 2
MaxPasses == 2
MaxClock == 8
MaxRequests == 3
MaxRuns == 2
MaxAiRequests == 3
MaxAiTime == 5500
MaxProfiles == 2
MaxWorkers == 2
MaxChecks == 2

----------------------------------------------------------------------------
(* Strings and JSON values *)

\* The identifiers the model draws from: a service the rules name, and in
\* the plans another spelling of it and a service no rule names.
RuleIds == {"WSearch"}
PlanIdTexts == {"WSEARCH", "Spooler"}

\* str.lower() on the identifiers of the model.
Lower(s) ==
    CASE s = "WSearch" -> "wsearch"
      [] s = "WSEARCH" -> "wsearch"
      [] s = "wsearch" -> "wsearch"
      [] s = "Spooler" -> "spooler"
      [] s = "spooler" -> "spooler"
      [] s = "Disable" -> "disable"
      [] s = "Remove" -> "remove"
      [] s = ".EXE" -> ".exe"
      [] s = "LocalAppData" -> "localappdata"
      [] s = "Temp" -> "temp"
      [] s = "Cache" -> "cache"
      [] s = "Templates" -> "templates"
      [] s = "Ne udalos sozdat tochku vosstanovleniya" -> "ne udalos sozdat tochku vosstanovleniya"
      [] OTHER -> s

\* A JSON scalar: a string, or a number with its decimal text.
JsonString(s) == [is_str |-> TRUE, text |-> s]
JsonNumber(s) == [is_str |-> FALSE, text |-> s]

\* str(value): a string is itself, a number is its decimal text.
Str(v) == v.text

SeqsUpTo(S, n) == UNION {[1..k -> S] : k \in 0..n}

Profiles == {"Developer", "Gamer"}
ProfileLists == {{"Developer"}, {"Gamer"}, {"Developer", "Gamer"}}

\* An optimization rule of the knowledge base.
OptimizationRule ==
    [id : RuleIds, safety : {"critical", "safe"},
     relevant_profiles : {{}, {"Gamer"}}]

\* A cleanup rule of the knowledge base.
CleanupCategories == {"pip_cache", "user_temp"}
CleanupRule == [category_id : CleanupCategories, safety : {"low", "medium"}]

\* An item of an action plan: a dict with some of the keys type, id, action
\* (a missing key's field is blank), or a value that is no dict.
ActionKeys == {"type", "id", "action"}
ActionValues == {"disable", "Disable", "stop"}
NoId == JsonString("")
WellFormedItem(id, action) ==
    [kind |-> "dict", keys |-> ActionKeys, type |-> "service", id |-> id, action |-> action]
IncompleteItem ==
    [kind |-> "dict", keys |-> {"id"}, type |-> "", id |-> JsonString("Spooler"), action |-> ""]
NonDictItem ==
    [kind |-> "other", keys |-> {}, type |-> "", id |-> NoId, action |-> ""]

\* A decision of a cleanup plan: a dict with or without 'clean' and with or
\* without further fields, or a value that is no dict.
Decision(clean, extra) ==
    [kind |-> "dict", has_clean |-> TRUE, clean |-> clean, extra |-> extra]
DecisionWithoutClean ==
    [kind |-> "dict", has_clean |-> FALSE, clean |-> FALSE, extra |-> "files_to_delete"]
NonDictDecision ==
    [kind |-> "other", has_clean |-> FALSE, clean |-> FALSE, extra |-> ""]

----------------------------------------------------------------------------
(* _PlanValidator *)

\* {rule['id'].lower(): rule for rule in rules}: the last rule of an id wins.
OptimizationRulesDict(rules) ==
    [k \in {Lower(rules[i].id) : i \in DOMAIN rules} |->
        rules[CHOOSE i \in DOMAIN rules :
                /\ Lower(rules[i].id) = k
                /\ \A j \in DOMAIN rules : Lower(rules[j].id) = k => j <= i]]

\* {rule['category_id']: rule for rule in rules}: the last rule of a category wins.
CleanupRulesDict(rules) ==
    [c \in {rules[i].category_id : i \in DOMAIN rules} |->
        rules[CHOOSE i \in DOMAIN rules :
                /\ rules[i].category_id = c
                /\ \A j \in DOMAIN rules : rules[j].category_id = c => j <= i]]

\* self.critical_items
CriticalItems(full_kb) ==
    LET d == OptimizationRulesDict(full_kb.optimization_rules)
    IN  {k \in DOMAIN d : d[k].safety = "critical"}

\* self.profile_relevant_items
ProfileRelevantItems(full_kb, profiles) ==
    LET d == OptimizationRulesDict(full_kb.optimization_rules)
    IN  {k \in DOMAIN d : \E p \in profiles : p \in d[k].relevant_profiles}

\* The structure check of one action item.
IsWellFormedAction(action) ==
    action.kind = "dict" /\ ActionKeys \subseteq action.keys

\* As KeepsAction, looking the id up as the plan spells it.
KeepsAction_IdNotLowered(action, full_kb, profiles) ==
    /\ IsWellFormedAction(action)
    /\ Str(action.id) \notin CriticalItems(full_kb)
    /\ ~ ( /\ action.action \in {"disable", "remove"}
           /\ Str(action.id) \in ProfileRelevantItems(full_kb, profiles) )

\* One pass of the loop body of _validate_action_plan: TRUE when the item
\* is appended to safe_actions.
KeepsAction(action, full_kb, profiles) ==
    /\ IsWellFormedAction(action)
    /\ Lower(Str(action.id)) \notin CriticalItems(full_kb)
    /\ ~ ( /\ action.action \in {"disable", "remove"}
           /\ Lower(Str(action.id)) \in ProfileRelevantItems(full_kb, profiles) )

RECURSIVE FilterActions(_, _, _)
FilterActions(items, full_kb, profiles) ==
    IF items = <<>> THEN <<>>
    ELSE LET rest == FilterActions(Tail(items), full_kb, profiles)
         IN  IF KeepsAction(Head(items), full_kb, profiles)
             THEN <<Head(items)>> \o rest
             ELSE rest

\* As ValidateActionPlan, without the structure check of the items: an item
\* that is no dict or lacks a key raises.
ValidateActionPlan_NoStructureCheck(action_plan, full_kb, profiles) ==
    IF \/ ~ action_plan.is_list
       \/ \E i \in DOMAIN action_plan.items : ~ IsWellFormedAction(action_plan.items[i])
    THEN [raised |-> TRUE, value |-> action_plan]
    ELSE [raised |-> FALSE,
          value |-> [is_list |-> TRUE,
                     items |-> FilterActions(action_plan.items, full_kb, profiles)]]

\* _validate_action_plan: the safe actions, or a ValueError for a non-list.
ValidateActionPlan(action_plan, full_kb, profiles) ==
    IF ~ action_plan.is_list
    THEN [raised |-> TRUE, value |-> action_plan]
    ELSE [raised |-> FALSE,
          value |-> [is_list |-> TRUE,
                     items |-> FilterActions(action_plan.items, full_kb, profiles)]]

SENSITIVE_PROFILES == {"Developer", "ContentCreator", "AudioEngineer"}

\* As CleanupVerdict, with all() for any() in the sensitive-profile test.
CleanupVerdict_AllSensitive(category_id, decision, full_kb, profiles) ==
    LET rules == CleanupRulesDict(full_kb.cleanup_rules)
        is_sensitive_profile == \A p \in profiles : p \in SENSITIVE_PROFILES
    IN  IF decision.kind # "dict" \/ ~ decision.has_clean
        THEN [keep |-> FALSE, decision |-> decision]
        ELSE IF ~ decision.clean
        THEN [keep |-> TRUE, decision |-> decision]
        ELSE IF category_id \notin DOMAIN rules
        THEN [keep |-> FALSE, decision |-> decision]
        ELSE IF rules[category_id].safety = "low" /\ is_sensitive_profile
        THEN [keep |-> TRUE, decision |-> Decision(FALSE, "")]
        ELSE [keep |-> TRUE, decision |-> decision]

\* As CleanupVerdict, with the rule looked up before the 'clean' test.
CleanupVerdict_LookupFirst(category_id, decision, full_kb, profiles) ==
    LET rules == CleanupRulesDict(full_kb.cleanup_rules)
        is_sensitive_profile == \E p \in profiles : p \in SENSITIVE_PROFILES
    IN  IF decision.kind # "dict" \/ ~ decision.has_clean
        THEN [keep |-> FALSE, decision |-> decision]
        ELSE IF category_id \notin DOMAIN rules
        THEN [keep |-> FALSE, decision |-> decision]
        ELSE IF ~ decision.clean
        THEN [keep |-> TRUE, decision |-> decision]
        ELSE IF rules[category_id].safety = "low" /\ is_sensitive_profile
        THEN [keep |-> TRUE, decision |-> Decision(FALSE, "")]
        ELSE [keep |-> TRUE, decision |-> decision]

\* As CleanupVerdict, with the rejected entry rewritten under a key other
\* than 'clean'.
CleanupVerdict_RewriteWithoutClean(category_id, decision, full_kb, profiles) ==
    LET rules == CleanupRulesDict(full_kb.cleanup_rules)
        is_sensitive_profile == \E p \in profiles : p \in SENSITIVE_PROFILES
    IN  IF decision.kind # "dict" \/ ~ decision.has_clean
        THEN [keep |-> FALSE, decision |-> decision]
        ELSE IF ~ decision.clean
        THEN [keep |-> TRUE, decision |-> decision]
        ELSE IF category_id \notin DOMAIN rules
        THEN [keep |-> FALSE, decision |-> decision]
        ELSE IF rules[category_id].safety = "low" /\ is_sensitive_profile
        THEN [keep |-> TRUE, decision |-> DecisionWithoutClean]
        ELSE [keep |-> TRUE, decision |-> decision]

\* The loop body of _validate_cleanup_plan for one entry: "skip" or the
\* decision stored in safe_cleanup_plan.
CleanupVerdict(category_id, decision, full_kb, profiles) ==
    LET rules == CleanupRulesDict(full_kb.cleanup_rules)
        is_sensitive_profile == \E p \in profiles : p \in SENSITIVE_PROFILES
    IN  IF decision.kind # "dict" \/ ~ decision.has_clean
        THEN [keep |-> FALSE, decision |-> decision]
        ELSE IF ~ decision.clean
        THEN [keep |-> TRUE, decision |-> decision]
        ELSE IF category_id \notin DOMAIN rules
        THEN [keep |-> FALSE, decision |-> decision]
        ELSE IF rules[category_id].safety = "low" /\ is_sensitive_profile
        THEN [keep |-> TRUE, decision |-> Decision(FALSE, "")]
        ELSE [keep |-> TRUE, decision |-> decision]

\* _validate_cleanup_plan: the safe cleanup plan, or a ValueError for a non-dict.
ValidateCleanupPlan(cleanup_plan, full_kb, profiles) ==
    IF ~ cleanup_plan.is_dict
    THEN [raised |-> TRUE, value |-> cleanup_plan]
    ELSE LET e == cleanup_plan.entries
             kept == {c \in DOMAIN e : CleanupVerdict(c, e[c], full_kb, profiles).keep}
         IN  [raised |-> FALSE,
              value |-> [is_dict |-> TRUE,
                         entries |-> [c \in kept |->
                                        CleanupVerdict(c, e[c], full_kb, profiles).decision]]]

\* _PlanValidator.validate: the plan object after the call and whether the
\* call raised ValueError.  The action plan is replaced in place before the
\* cleanup plan is validated.
Validate(p, full_kb, profiles) ==
    IF p.kind # "dict" \/ ~ ({"action_plan", "cleanup_plan"} \subseteq p.keys)
    THEN [raised |-> TRUE, plan |-> p]
    ELSE LET a == ValidateActionPlan(p.action_plan, full_kb, profiles)
             c == ValidateCleanupPlan(p.cleanup_plan, full_kb, profiles)
         IN  IF a.raised THEN [raised |-> TRUE, plan |-> p]
             ELSE IF c.raised
             THEN [raised |-> TRUE, plan |-> [p EXCEPT !.action_plan = a.value]]
             ELSE [raised |-> FALSE,
                   plan |-> [p EXCEPT !.action_plan = a.value, !.cleanup_plan = c.value]]


----------------------------------------------------------------------------
(* Plans and responses of the reasoning service *)

EmptyActionPlan == [is_list |-> TRUE, items |-> <<>>]
EmptyCleanupPlan == [is_dict |-> TRUE, entries |-> [c \in {} |-> NonDictDecision]]
NonListActionPlan == [is_list |-> FALSE, items |-> <<>>]
NonDictCleanupPlan == [is_dict |-> FALSE, entries |-> [c \in {} |-> NonDictDecision]]

PlanDict(action_plan, cleanup_plan) ==
    [kind |-> "dict", keys |-> {"action_plan", "cleanup_plan"},
     action_plan |-> action_plan, cleanup_plan |-> cleanup_plan]
EmptyPlan == PlanDict(EmptyActionPlan, EmptyCleanupPlan)
\* A JSON object without the two keys, and a JSON value that is no object.
WrongKeyPlan ==
    [kind |-> "dict", keys |-> {}, action_plan |-> EmptyActionPlan, cleanup_plan |-> EmptyCleanupPlan]
OnlyActionPlan ==
    [kind |-> "dict", keys |-> {"action_plan"}, action_plan |-> EmptyActionPlan,
     cleanup_plan |-> EmptyCleanupPlan]
NonDictPlan ==
    [kind |-> "other", keys |-> {}, action_plan |-> EmptyActionPlan, cleanup_plan |-> EmptyCleanupPlan]
\* No plan object yet.
NoPlan ==
    [kind |-> "none", keys |-> {}, action_plan |-> EmptyActionPlan, cleanup_plan |-> EmptyCleanupPlan]

\* The answer of the model to the plan prompt: an API failure, a blocked
\* answer (no parts), or a text that is no JSON, JSON in a ```json fence,
\* bare JSON, or JSON cut off before its closing brace.
ResponseKinds == {"api_error", "blocked", "not_json", "fenced", "plain", "truncated"}
Response(kind, value) == [kind |-> kind, value |-> value]
NoResponse == Response("none", NoPlan)

\* AICommunicator._extract_json_from_response: the parsed value, or ValueError.
ExtractJson(resp) ==
    IF resp.kind \in {"fenced", "plain", "truncated"}
    THEN [raised |-> FALSE, value |-> resp.value]
    ELSE [raised |-> TRUE, value |-> NoPlan]

\* AIAnalyzer.generate_distillation_plan on a response: what the call does.
GenerateDistillationPlanResult(resp, kb, profiles) ==
    IF resp.kind = "api_error"
    THEN [outcome |-> "Exception", plan |-> NoPlan, validated |-> FALSE,
          validate_raised |-> FALSE, error_logs |-> 0]
    ELSE IF resp.kind = "blocked"
    THEN [outcome |-> "RuntimeError", plan |-> NoPlan, validated |-> FALSE,
          validate_raised |-> FALSE, error_logs |-> 1]
    ELSE IF ExtractJson(resp).raised
    THEN [outcome |-> "RuntimeError", plan |-> NoPlan, validated |-> FALSE,
          validate_raised |-> FALSE, error_logs |-> 1]
    ELSE LET v == Validate(ExtractJson(resp).value, kb, profiles)
         IN  IF v.raised
             THEN [outcome |-> "RuntimeError", plan |-> v.plan, validated |-> TRUE,
                   validate_raised |-> TRUE, error_logs |-> 1]
             ELSE [outcome |-> "returned", plan |-> v.plan, validated |-> TRUE,
                   validate_raised |-> FALSE, error_logs |-> 0]

----------------------------------------------------------------------------
(* Operations on a validator and on the plan generator *)

\* validator.validate(plan) on the plan object at hand.
CallValidate ==
    /\ plan.kind # "none"
    /\ outcome \in {"none", "returned"}
    /\ passes < MaxPasses
    /\ LET v == Validate(plan, knowledge_base, user_profiles)
       IN  /\ plan' = v.plan
           /\ validate_raised' = v.raised
           /\ outcome' = IF v.raised THEN "ValueError" ELSE "returned"
    /\ previous' = plan
    /\ submitted' = IF passes = 0 THEN plan ELSE submitted
    /\ passes' = passes + 1
    /\ UNCHANGED <<session_vars, cleaner_vars, knowledge_base, user_profiles, response, error_logs, pipeline_vars>>

\* await ai_analyzer.generate_distillation_plan(data, profiles, kb)
GenerateDistillationPlan ==
    /\ response.kind # "none"
    /\ outcome = "none"
    /\ LET g == GenerateDistillationPlanResult(response, knowledge_base, user_profiles)
       IN  /\ plan' = g.plan
           /\ outcome' = g.outcome
           /\ validate_raised' = g.validate_raised
           /\ error_logs' = g.error_logs
           /\ passes' = IF g.validated THEN 1 ELSE 0
           /\ submitted' = IF g.validated THEN ExtractJson(response).value ELSE submitted
           /\ previous' = IF g.validated THEN ExtractJson(response).value ELSE previous
    /\ UNCHANGED <<session_vars, cleaner_vars, knowledge_base, user_profiles, response, pipeline_vars>>

----------------------------------------------------------------------------
(* Inputs *)

NotExecuted == [called |-> FALSE, items |-> <<>>]
NoCommand == [raised |-> FALSE, returncode |-> 0, stderr |-> "not run"]
NoScript == [ran |-> FALSE, raised |-> FALSE, returncode |-> 0]
NoSummary == [keys |-> {}, done |-> <<>>, errors |-> 0]

NothingValidated ==
    /\ submitted = NoPlan
    /\ previous = NoPlan
    /\ validate_raised = FALSE
    /\ outcome = "none"
    /\ error_logs = 0
    /\ passes = 0

\* A core after construction: no run started, no follow-up task.
PipelineIdle ==
    /\ pc = "idle"
    /\ cancel_requested = FALSE
    /\ restore_result = NoCommand
    /\ running = {}
    /\ finished = {}
    /\ raised_tasks = {}
    /\ stage_log = <<>>
    /\ effects = {}
    /\ executed = NotExecuted
    /\ background_tasks = 0
    /\ checked = <<>>
    /\ result = "none"
    /\ progress = <<>>
    /\ script_result = NoScript
    /\ debloat_summary = NoSummary
    /\ cleanup_errors = {}

\* A cleaner after construction on a host without the modelled files.
NoEntries == [c \in {} |-> FALSE]
NothingToDo ==
    [phase |-> "idle", standard |-> FALSE, deep |-> <<>>, parents |-> FALSE,
     bases |-> {}, cleaned |-> {}]
\* _last_scan_time = None and _cached_system_components = None.
NoTime == -1
NoComponents == [present |-> FALSE, captured |-> NoTime]
NotCollecting == [pc |-> "idle", started |-> NoTime]
CacheIdle ==
    /\ clock = 0
    /\ last_scan_time = NoTime
    /\ cached_system_components = NoComponents
    /\ collect = NotCollecting
    /\ requests = <<>>

\* No run has spawned a follow-up task, nobody has asked for shutdown.
NoTask == [loop |-> "none", state |-> "none", callback |-> "none", closed |-> FALSE]
NotShuttingDown == [pc |-> "idle", gathered |-> {}]
RegistryIdle ==
    /\ follow_ups = [k \in 1..MaxRuns |-> NoTask]
    /\ tracked = {}
    /\ shutdown_call = NotShuttingDown
    /\ close_wait = "idle"

\* The prompts of the model and hashlib.md5(prompt).hexdigest() of each.
Prompts == {"profile prompt", "plan prompt"}
PromptHash(prompt) ==
    IF prompt = "profile prompt" THEN "5d41402a" ELSE "7d793037"

\* self.cache.get(prompt_hash) when nothing is stored, and a stored pair.
NoCached == [present |-> FALSE, text |-> 0, timestamp |-> 0]
Cached(text, timestamp) == [present |-> TRUE, text |-> text, timestamp |-> timestamp]

\* A call of _get_response_with_cache and how it ended: with the cached
\* text, with the fresh text, or raising for a blocked response or an error
\* of the service.  The text of a model response is known by the number of
\* the model call.
Returns(prompt, use_cache, ending, text) ==
    [prompt |-> prompt, use_cache |-> use_cache, outcome |-> ending, text |-> text]
NoReturn == Returns("", FALSE, "none", 0)

AiCacheIdle ==
    /\ ai_time = 0
    /\ ai_cache = [h \in {PromptHash(q) : q \in Prompts} |-> NoCached]
    /\ call_count = 0
    /\ ai_requests = {}
    /\ requests_made = 0
    /\ last_returned = NoReturn

\* What determine_user_profile did: nothing yet, returned a list of
\* labels, or raised.
ProfileCall(at, profiles) == [pc |-> at, profiles |-> profiles]

ProfileIdle ==
    /\ profile_response = NoResponse
    /\ profile_call = ProfileCall("idle", <<>>)

\* MainWindow after __init__: the home page, no worker.
HomeWindow ==
    [page |-> "home", start_enabled |-> TRUE, cancel_enabled |-> FALSE,
     worker |-> 0, timers |-> 0, refused |-> FALSE]

WindowIdle ==
    /\ window = HomeWindow
    /\ workers = <<>>
    /\ signals = <<>>
    /\ delivered = <<>>

ChecksIdle ==
    /\ dir_checks = <<>>
    /\ rmdir_log = <<>>

\* What a discovery meets: the categories whose scan raises, the paths whose
\* scan raises, and the files that are empty.
ScanInput(categories, paths, empty) ==
    [raising_categories |-> categories, raising_paths |-> paths, empty_files |-> empty]

\* What find_junk_files_deep did: it returned a junk summary (a function of
\* the categories in it), or raised, or was not called.
ScanOutcome(at, report) == [pc |-> at, report |-> report]

ScanIdle ==
    /\ scan_input = ScanInput({}, {}, {})
    /\ scan_outcome = ScanOutcome("idle", <<>>)

SessionIdle ==
    /\ CacheIdle /\ RegistryIdle /\ failed_calls = {} /\ AiCacheIdle /\ ProfileIdle
    /\ WindowIdle
    /\ ChecksIdle
    /\ ScanIdle

\* The numbers a cleaner operation returns, and the summary they are added
\* to: the size deleted, the count of deleted items, the count of errors.
CleanupSummary(size, count, errors) ==
    [cleaned_size_bytes |-> size, deleted_files_count |-> count, errors |-> errors]

CleanerIdle ==
    /\ fs_files = {}
    /\ fs_dirs = {}
    /\ locked = {}
    /\ junk_files_report = NoEntries
    /\ deep_cleanup_plan = NoEntries
    /\ cleaner_todo = NothingToDo
    /\ deleted = {}
    /\ failed_deletions = {}
    /\ deep_summary = CleanupSummary(0, 0, 0)
    /\ deep_removed = {}

ActionItems ==
    {WellFormedItem(JsonString(t), a) : t \in PlanIdTexts, a \in ActionValues}
        \cup {IncompleteItem}

KnowledgeBase(optimization_rules, cleanup_rules) ==
    [optimization_rules |-> optimization_rules, cleanup_rules |-> cleanup_rules]

\* A validator built from any rule list and profile list, given any action plan.
InitActions ==
    /\ knowledge_base \in
         {KnowledgeBase(r, <<>>) : r \in SeqsUpTo(OptimizationRule, MaxRules)}
    /\ user_profiles \in ProfileLists
    /\ plan \in {PlanDict([is_list |-> TRUE, items |-> i], EmptyCleanupPlan) :
                    i \in SeqsUpTo(ActionItems, MaxActions)}
    /\ response = NoResponse
    /\ NothingValidated
    /\ PipelineIdle
    /\ SessionIdle
    /\ CleanerIdle
    /\ installed_services = {}

SpecActions == InitActions /\ [][CallValidate]_vars

PlanCategories == {"pip_cache", "user_temp", "unknown_cache"}
Decisions ==
    {Decision(c, e) : c \in BOOLEAN, e \in {"", "files_to_delete"}}
        \cup {DecisionWithoutClean, NonDictDecision}
CleanupEntries(categories, decisions) ==
    UNION {[D -> decisions] : D \in SUBSET categories}

\* A validator built from any cleanup rule list and profile list, given any
\* cleanup plan.
InitCleanup ==
    /\ knowledge_base \in
         {KnowledgeBase(<<>>, r) : r \in SeqsUpTo(CleanupRule, MaxRules)}
    /\ user_profiles \in ProfileLists
    /\ plan \in {PlanDict(EmptyActionPlan, [is_dict |-> TRUE, entries |-> e]) :
                    e \in CleanupEntries(PlanCategories, Decisions)}
    /\ response = NoResponse
    /\ NothingValidated
    /\ PipelineIdle
    /\ SessionIdle
    /\ CleanerIdle
    /\ installed_services = {}

SpecCleanup == InitCleanup /\ [][CallValidate]_vars

\* The plan generator answering with any text: the values a JSON text can
\* hold where the code expects a plan.
ResponseItems ==
    {WellFormedItem(JsonString("WSEARCH"), "disable"),
     WellFormedItem(JsonString("Spooler"), "stop"),
     WellFormedItem(JsonNumber("7"), "disable"),
     IncompleteItem, NonDictItem}
ResponseDecisions == {Decision(TRUE, "files_to_delete"), Decision(FALSE, ""), NonDictDecision}
ResponseActionPlans ==
    {NonListActionPlan} \cup
    {[is_list |-> TRUE, items |-> i] : i \in SeqsUpTo(ResponseItems, MaxActions)}
ResponseCleanupPlans ==
    {NonDictCleanupPlan} \cup
    {[is_dict |-> TRUE, entries |-> e] :
        e \in CleanupEntries({"pip_cache", "unknown_cache"}, ResponseDecisions)}
ResponseValues ==
    {WrongKeyPlan, OnlyActionPlan, NonDictPlan} \cup
    {PlanDict(a, c) : a \in ResponseActionPlans, c \in ResponseCleanupPlans}
Responses ==
    {Response(k, NoPlan) : k \in {"api_error", "blocked", "not_json"}} \cup
    {Response(k, v) : k \in {"fenced", "plain", "truncated"}, v \in ResponseValues}

InitPlan ==
    /\ knowledge_base \in
         {KnowledgeBase(o, c) :
            o \in {<<>>} \cup {<<r>> : r \in {x \in OptimizationRule : x.id = "WSearch"}},
            c \in {<<>>} \cup {<<r>> : r \in {x \in CleanupRule : x.category_id = "pip_cache"}}}
    /\ user_profiles \in {{"Developer"}, {"Gamer"}}
    /\ response \in Responses
    /\ plan = NoPlan
    /\ NothingValidated
    /\ PipelineIdle
    /\ SessionIdle
    /\ CleanerIdle
    /\ installed_services = {}

NextPlan == GenerateDistillationPlan \/ CallValidate

SpecPlan == InitPlan /\ [][NextPlan]_vars

----------------------------------------------------------------------------
(* WindowsOptimizer *)

\* What subprocess.run of the restore point command can do: raise (no
\* PowerShell), or return an exit code and an error output.  The Russian
\* message is written in Latin letters.
ENGLISH_FAILURE == "A new system restore point could not be created"
RUSSIAN_FAILURE == "ne udalos sozdat tochku vosstanovleniya"
CommandOutcomes ==
    {[raised |-> TRUE, returncode |-> 0, stderr |-> ""]} \cup
    {[raised |-> FALSE, returncode |-> 0, stderr |-> e] : e \in {"", "Access is denied"}} \cup
    {[raised |-> FALSE, returncode |-> 1, stderr |-> e] :
        e \in {"", "Access is denied", ENGLISH_FAILURE,
               "Ne udalos sozdat tochku vosstanovleniya"}}

\* As CreateRestorePointRaises, without the test of the Russian message.
CreateRestorePointRaises_EnglishOnly(o) ==
    \/ o.raised
    \/ o.returncode # 0 /\ o.stderr = ENGLISH_FAILURE

\* WindowsOptimizer.create_restore_point: TRUE when the call raises.
CreateRestorePointRaises(o) ==
    \/ o.raised
    \/ /\ o.returncode # 0
       /\ o.stderr = ENGLISH_FAILURE \/ Lower(o.stderr) = RUSSIAN_FAILURE

\* _generate_powershell_script yields a line for the item.
YieldsScriptLine(item) ==
    /\ Str(item.id) # "" /\ item.action # "" /\ item.type # ""
    /\ \/ item.action = "disable" /\ item.type = "service"
       \/ item.action = "remove" /\ item.type = "uwp_app"

HasScript(items) == \E i \in DOMAIN items : YieldsScriptLine(items[i])

----------------------------------------------------------------------------
(* WinSpectorCore: one run of run_autonomous_optimization *)

STAGES ==
    <<"restore_point", "profiling", "data_collection", "plan_generation",
      "execution", "report", "follow_up">>

PROFILE_TASKS ==
    {"hardware", "installed_software", "environment_variables", "shortcuts",
     "user_folder_stats", "default_browser"}
COLLECT_TASKS == {"services", "uwp_apps", "junk_files"}
CLEANUP_TASKS == {"standard_cleanup", "deep_cleanup"}
EXECUTION_TASKS == CLEANUP_TASKS \cup {"empty_folders", "action_plan"}

\* The sub-tasks a stage awaits.
StageTasks(stage) ==
    CASE stage = "restore_point" -> {"create_restore_point"}
      [] stage = "profiling" -> PROFILE_TASKS \cup {"determine_user_profile"}
      [] stage = "data_collection" -> COLLECT_TASKS
      [] stage = "plan_generation" -> {"generate_distillation_plan"}
      [] stage = "execution" -> EXECUTION_TASKS
      [] stage = "report" -> {"generate_final_report"}
      [] OTHER -> {}

\* _filter_kb_for_profile
FilterKbForProfile(kb, profiles) ==
    [optimization_rules |->
        SelectSeq(kb.optimization_rules,
                  LAMBDA rule : \/ rule.relevant_profiles = {}
                                \/ \E p \in profiles : p \in rule.relevant_profiles),
     cleanup_rules |-> kb.cleanup_rules]

\* As FuturesJoined, returning as soon as one of the tasks is done.
FuturesJoined_FirstCompleted(tasks, done) == tasks \cap done # {}

\* await asyncio.gather(...) of a stage returns: every awaited task is done.
FuturesJoined(tasks, done) == tasks \subseteq done

\* As ProgressPercent, with execute_action_plan counting the start of the
\* script as half of its own work.
ProgressPercent_ExecutorOwnScale(step) ==
    CASE step = "restore_point" -> 5
      [] step = "restore_point_created" -> 10
      [] step = "profiling" -> 15
      [] step = "profiles_detected" -> 25
      [] step = "data_collection" -> 40
      [] step = "plan_generation" -> 55
      [] step = "execution" -> 70
      [] step = "script_started" -> 50
      [] step = "components_done" -> 85
      [] step = "report" -> 95
      [] OTHER -> 100

\* The percent value of each progress_callback call of a run.
ProgressPercent(step) ==
    CASE step = "restore_point" -> 5
      [] step = "restore_point_created" -> 10
      [] step = "profiling" -> 15
      [] step = "profiles_detected" -> 25
      [] step = "data_collection" -> 40
      [] step = "plan_generation" -> 55
      [] step = "execution" -> 70
      [] step = "script_started" -> 75
      [] step = "components_done" -> 85
      [] step = "report" -> 95
      [] OTHER -> 100

\* progress_callback is called for each of the steps, in order.
Reports(steps) ==
    progress' = progress \o [i \in DOMAIN steps |-> ProgressPercent(steps[i])]

\* A sub-task raises and nothing catches it: the run ends with the error;
\* the sibling tasks stay in flight.
TaskRaises(t) ==
    /\ pc' = IF pc = "failed" THEN pc ELSE "failed"
    /\ result' = IF pc = "failed" THEN result ELSE "error"
    /\ running' = running \ {t}
    /\ raised_tasks' = raised_tasks \cup {t}
    /\ UNCHANGED <<finished, stage_log, effects, checked, progress>>

\* A sub-task completes and its stage goes on waiting for others (or the
\* run has ended and the task was left in flight).
TaskCompletes(t, started, reported) ==
    /\ running' = (running \ {t}) \cup started
    /\ finished' = finished \cup {t}
    /\ Reports(reported)
    /\ UNCHANGED <<pc, raised_tasks, stage_log, effects, checked, result>>

\* As StageCompletes, going on to the next stage whatever is_cancelled
\* returned.
StageCompletes_CheckIgnored(t, next, started, work, reported, announced) ==
    /\ finished' = finished \cup {t}
    /\ raised_tasks' = raised_tasks
    /\ checked' = Append(checked, cancel_requested)
    /\ pc' = next
    /\ result' = result
    /\ running' = (running \ {t}) \cup started
    /\ stage_log' = Append(stage_log, next)
    /\ effects' = effects \cup work
    /\ Reports(reported \o announced)

\* The last sub-task of a stage completes: _check_cancellation, then the
\* next stage starts its sub-tasks.  A CancelledError makes the run return
\* the cancelled marker.
StageCompletes(t, next, started, work, reported, announced) ==
    /\ finished' = finished \cup {t}
    /\ raised_tasks' = raised_tasks
    /\ checked' = Append(checked, cancel_requested)
    /\ IF cancel_requested
       THEN /\ pc' = "cancelled"
            /\ result' = "cancelled"
            /\ running' = running \ {t}
            /\ Reports(reported)
            /\ UNCHANGED <<stage_log, effects>>
       ELSE /\ pc' = next
            /\ result' = result
            /\ running' = (running \ {t}) \cup started
            /\ stage_log' = Append(stage_log, next)
            /\ effects' = effects \cup work
            /\ Reports(reported \o announced)

\* run_autonomous_optimization is called: stage 1 starts.
RunAutonomousOptimization ==
    /\ pc = "idle"
    /\ pc' = "restore_point"
    /\ stage_log' = Append(stage_log, "restore_point")
    /\ running' = running \cup {"create_restore_point"}
    /\ Reports(<<"restore_point">>)
    /\ UNCHANGED <<session_vars, cleaner_vars, knowledge_base, user_profiles, response, plan, validation_vars,
                   cancel_requested, restore_result, finished, raised_tasks, effects,
                   executed, background_tasks, checked, result, executor_vars>>

\* AsyncWorker.cancel: is_cancelled becomes true, from the moment the worker
\* is started until the run has ended.
Cancel ==
    /\ pc \notin {"done", "cancelled", "failed"}
    /\ ~ cancel_requested
    /\ cancel_requested' = TRUE
    /\ UNCHANGED <<session_vars, cleaner_vars, knowledge_base, user_profiles, response, plan, validation_vars,
                   pc, restore_result, running, finished, raised_tasks, stage_log,
                   effects, executed, background_tasks, run_vars, executor_vars>>

\* _step_create_restore_point: the command has run.
StepCreateRestorePoint ==
    /\ pc = "restore_point"
    /\ "create_restore_point" \in running
    /\ \E o \in CommandOutcomes :
        /\ restore_result' = o
        /\ IF CreateRestorePointRaises(o)
           THEN TaskRaises("create_restore_point")
           ELSE StageCompletes("create_restore_point", "profiling", PROFILE_TASKS,
                               {"profiling"}, <<"restore_point_created">>,
                               <<"profiling">>)
    /\ UNCHANGED <<session_vars, cleaner_vars, knowledge_base, user_profiles, response, plan, validation_vars,
                   cancel_requested, executed, background_tasks, executor_vars>>

\* UserProfiler.get_system_profile: one branch of the fan-out is done (with
\* a result or with an exception, which gather returns as a result); after
\* the last one determine_user_profile is called.
ProfileTaskDone ==
    /\ pc = "profiling"
    /\ \E t \in running \cap PROFILE_TASKS :
        TaskCompletes(t, IF FuturesJoined(PROFILE_TASKS, finished \cup {t})
                         THEN {"determine_user_profile"} ELSE {}, <<>>)
    /\ UNCHANGED <<session_vars, cleaner_vars, knowledge_base, user_profiles, response, plan, validation_vars,
                   cancel_requested, restore_result, executed, background_tasks,
                   executor_vars>>

\* What determine_user_profile yields: a non-empty list of labels, or an
\* AttributeError for an answer that is a JSON list.
DetectedProfiles == {{"HomeUser"}, {"Developer"}, {"Gamer"}}
\* A failed request is answered with "{}" by AIBase._get_response_with_cache,
\* for which determine_user_profile yields the default label.
ProfileAnswers ==
    {[raised |-> TRUE, failed |-> FALSE, profiles |-> {}],
     [raised |-> FALSE, failed |-> TRUE, profiles |-> {"HomeUser"}]} \cup
    {[raised |-> FALSE, failed |-> FALSE, profiles |-> d] : d \in DetectedProfiles}

\* _step_profile_user: determine_user_profile is done.
StepProfileUser ==
    /\ pc = "profiling"
    /\ "determine_user_profile" \in running
    /\ \E a \in ProfileAnswers :
        /\ failed_calls' = IF a.failed THEN failed_calls \cup {"determine_user_profile"}
                           ELSE failed_calls
        /\ IF a.raised
           THEN /\ TaskRaises("determine_user_profile")
                /\ UNCHANGED user_profiles
           ELSE /\ user_profiles' = a.profiles
                /\ StageCompletes("determine_user_profile", "data_collection",
                                  COLLECT_TASKS, {"component_scan", "junk_scan"},
                                  <<"profiles_detected">>, <<"data_collection">>)
    /\ UNCHANGED <<cache_vars, registry_vars, ai_vars, profile_vars, window_vars, checks_vars, scan_vars, cleaner_vars, knowledge_base, response, plan, validation_vars,
                   cancel_requested, restore_result, executed, background_tasks,
                   executor_vars>>

\* _step_collect_data_for_ai: one of the gathered scans is done.  The
\* enumerations of get_system_components can raise; the junk-file scan
\* captures its failures.
CollectTaskDone ==
    /\ pc \in {"data_collection", "failed"}
    /\ \E t \in running \cap COLLECT_TASKS, ok \in BOOLEAN :
        /\ ok \/ t # "junk_files"
        /\ IF ~ ok THEN TaskRaises(t)
           ELSE IF pc = "data_collection" /\ FuturesJoined(COLLECT_TASKS, finished \cup {t})
           THEN StageCompletes(t, "plan_generation", {"generate_distillation_plan"},
                               {"ai_call"}, <<>>, <<"plan_generation">>)
           ELSE TaskCompletes(t, {}, <<>>)
    /\ UNCHANGED <<session_vars, cleaner_vars, knowledge_base, user_profiles, response, plan, validation_vars,
                   cancel_requested, restore_result, executed, background_tasks,
                   executor_vars>>

\* The answers of the reasoning service to the plan prompt in a run.
PipelineItems ==
    {WellFormedItem(JsonString("WSEARCH"), "disable"),
     WellFormedItem(JsonString("Spooler"), "disable"),
     WellFormedItem(JsonString("Spooler"), "stop")}
PipelineResponses ==
    {Response("api_error", NoPlan), Response("not_json", NoPlan)} \cup
    {Response("plain",
              PlanDict([is_list |-> TRUE, items |-> i],
                       [is_dict |-> TRUE,
                        entries |-> [c \in {"pip_cache"} |-> Decision(TRUE, "")]])) :
        i \in SeqsUpTo(PipelineItems, MaxActions)}

\* _step_generate_ai_plan: generate_distillation_plan is done; then
\* _check_cancellation, progress 70 and the two execution coroutines start;
\* the action coroutine runs up to its first await.
StepGenerateAiPlan ==
    /\ pc = "plan_generation"
    /\ "generate_distillation_plan" \in running
    /\ \E resp \in PipelineResponses :
        LET relevant_kb == FilterKbForProfile(knowledge_base, user_profiles)
            g == GenerateDistillationPlanResult(resp, relevant_kb, user_profiles)
            items == g.plan.action_plan.items
        IN  /\ response' = resp
            /\ failed_calls' = IF resp.kind = "api_error"
                               THEN failed_calls \cup {"generate_distillation_plan"}
                               ELSE failed_calls
            /\ outcome' = g.outcome
            /\ validate_raised' = g.validate_raised
            /\ error_logs' = g.error_logs
            /\ passes' = IF g.validated THEN 1 ELSE 0
            /\ submitted' = IF g.validated THEN ExtractJson(resp).value ELSE submitted
            /\ previous' = IF g.validated THEN ExtractJson(resp).value ELSE previous
            /\ IF g.outcome # "returned"
               THEN /\ TaskRaises("generate_distillation_plan")
                    /\ UNCHANGED <<plan, executed>>
               ELSE /\ plan' = g.plan
                    /\ StageCompletes("generate_distillation_plan", "execution",
                                      CLEANUP_TASKS \cup {"action_plan"},
                                      {"file_deletion"} \cup
                                        (IF HasScript(items) THEN {"os_action"} ELSE {}),
                                      <<>>,
                                      IF HasScript(items)
                                      THEN <<"execution", "script_started">>
                                      ELSE <<"execution">>)
                    /\ executed' = IF cancel_requested \/ items = <<>>
                                   THEN executed
                                   ELSE [called |-> TRUE, items |-> items]
    /\ UNCHANGED <<cache_vars, registry_vars, ai_vars, profile_vars, window_vars, checks_vars, scan_vars, cleaner_vars, knowledge_base, user_profiles, cancel_requested, restore_result,
                   background_tasks, executor_vars>>

\* _step_execute_full_cleanup: the standard or the plan-driven cleanup is
\* done; after both, the empty-directory pass starts.
CleanupTaskDone ==
    /\ pc \in {"execution", "failed"}
    /\ \E t \in running \cap CLEANUP_TASKS, ok \in BOOLEAN, errors \in BOOLEAN :
        IF ~ ok
        THEN /\ ~ errors
             /\ TaskRaises(t)
             /\ UNCHANGED cleanup_errors
        ELSE /\ cleanup_errors' = IF errors THEN cleanup_errors \cup {t}
                                  ELSE cleanup_errors
             /\ TaskCompletes(t, IF /\ FuturesJoined(CLEANUP_TASKS, finished \cup {t})
                                    /\ raised_tasks \cap CLEANUP_TASKS = {}
                                 THEN {"empty_folders"} ELSE {}, <<>>)
    /\ UNCHANGED <<session_vars, cleaner_vars, knowledge_base, user_profiles, response, plan, validation_vars,
                   cancel_requested, restore_result, executed, background_tasks,
                   installed_services, script_result, debloat_summary>>

\* The end of a task of the execution stage that may be the last one: the
\* gather of the stage returns, _check_cancellation, the report stage starts.
ExecutionTaskDone(t, reported) ==
    IF pc = "execution" /\ FuturesJoined(EXECUTION_TASKS, finished \cup {t})
    THEN StageCompletes(t, "report", {"generate_final_report"}, {"ai_call"},
                        reported, <<"report">>)
    ELSE TaskCompletes(t, {}, reported)

\* cleanup_all_empty_folders_async is done (it captures its failures and
\* counts them in its summary).
EmptyFoldersDone ==
    /\ pc \in {"execution", "failed"}
    /\ "empty_folders" \in running
    /\ \E errors \in BOOLEAN :
         cleanup_errors' = IF errors THEN cleanup_errors \cup {"empty_folders"}
                           ELSE cleanup_errors
    /\ ExecutionTaskDone("empty_folders", <<>>)
    /\ UNCHANGED <<session_vars, cleaner_vars, knowledge_base, user_profiles, response, plan, validation_vars,
                   cancel_requested, restore_result, executed, background_tasks,
                   installed_services, script_result, debloat_summary>>

\* What running the script file can do: raise, or return an exit code.
ScriptOutcomes ==
    {[ran |-> TRUE, raised |-> TRUE, returncode |-> 0]} \cup
    {[ran |-> TRUE, raised |-> FALSE, returncode |-> rc] : rc \in {0, 1}}

\* As ScriptRunRaises, with subprocess.run checking the exit code.
ScriptRunRaises_OnExitCode(o) == o.raised \/ o.returncode # 0

\* _run_powershell_script raises only when the script file cannot be
\* written, run or removed; a non-zero exit code is put in the summary.
ScriptRunRaises(o) == o.raised

\* The summary _step_execute_action_plan stores for an empty plan.
EmptyPlanSummary == [keys |-> {"completed", "failed"}, done |-> <<>>, errors |-> 0]

\* The ids _run_powershell_script records after exit code 0.
RecordedItems(items) ==
    LET acted == SelectSeq(items,
                    LAMBDA item : \/ item.action = "disable" /\ item.type = "service"
                                  \/ item.action = "remove" /\ item.type = "uwp_app")
    IN  [i \in DOMAIN acted |-> Str(acted[i].id)]

\* The summary of execute_action_plan: nothing to run, or after the script.
ExecutorSummary(items, o) ==
    [keys |-> {"disabled_services", "removed_apps", "errors"},
     done |-> IF o.ran /\ o.returncode = 0 THEN RecordedItems(items) ELSE <<>>,
     errors |-> IF o.ran /\ o.returncode # 0 THEN 1 ELSE 0]

\* _step_execute_action_plan is done: it returned at once for an empty
\* plan, or execute_action_plan returned or raised.
StepExecuteActionPlan ==
    /\ pc \in {"execution", "failed"}
    /\ "action_plan" \in running
    /\ IF ~ executed.called
       THEN /\ debloat_summary' = EmptyPlanSummary
            /\ script_result' = script_result
            /\ ExecutionTaskDone("action_plan", <<>>)
       ELSE IF ~ HasScript(executed.items)
       THEN /\ debloat_summary' = ExecutorSummary(executed.items, NoScript)
            /\ script_result' = script_result
            /\ ExecutionTaskDone("action_plan", <<"components_done">>)
       ELSE \E o \in ScriptOutcomes :
            /\ script_result' = o
            /\ IF ScriptRunRaises(o)
               THEN /\ TaskRaises("action_plan")
                    /\ debloat_summary' = debloat_summary
               ELSE /\ debloat_summary' = ExecutorSummary(executed.items, o)
                    /\ ExecutionTaskDone("action_plan", <<"components_done">>)
    /\ UNCHANGED <<session_vars, cleaner_vars, knowledge_base, user_profiles, response, plan, validation_vars,
                   cancel_requested, restore_result, executed, background_tasks,
                   installed_services, cleanup_errors>>

\* _step_generate_final_report is done; the self-reflection task is created
\* and added to background_tasks, and the run returns the report.
StepGenerateFinalReport ==
    /\ pc = "report"
    /\ "generate_final_report" \in running
    /\ pc' = "done"
    /\ result' = "report"
    /\ running' = running \ {"generate_final_report"}
    /\ finished' = finished \cup {"generate_final_report"}
    /\ stage_log' = Append(stage_log, "follow_up")
    /\ background_tasks' = background_tasks + 1
    /\ Reports(<<"done">>)
    /\ \E failed \in BOOLEAN :
         failed_calls' = IF failed THEN failed_calls \cup {"generate_final_report"}
                         ELSE failed_calls
    /\ UNCHANGED <<cache_vars, registry_vars, ai_vars, profile_vars, window_vars, checks_vars, scan_vars, cleaner_vars, knowledge_base, user_profiles, response, plan, validation_vars,
                   cancel_requested, restore_result, raised_tasks, effects, executed,
                   checked, executor_vars>>

\* The services that exist on the host of a run.
InstalledServiceSets == {{"WSearch", "Spooler"}, {"Spooler"}}

\* A core after construction, with a knowledge base of at most one
\* optimization rule.
Init ==
    /\ knowledge_base \in
         {KnowledgeBase(r, <<[category_id |-> "pip_cache", safety |-> "low"]>>) :
            r \in {<<>>} \cup {<<x>> : x \in OptimizationRule}}
    /\ user_profiles = {}
    /\ response = NoResponse
    /\ plan = NoPlan
    /\ NothingValidated
    /\ PipelineIdle
    /\ SessionIdle
    /\ CleanerIdle
    /\ installed_services \in InstalledServiceSets

Next ==
    \/ RunAutonomousOptimization
    \/ Cancel
    \/ StepCreateRestorePoint
    \/ ProfileTaskDone
    \/ StepProfileUser
    \/ CollectTaskDone
    \/ StepGenerateAiPlan
    \/ CleanupTaskDone
    \/ EmptyFoldersDone
    \/ StepExecuteActionPlan
    \/ StepGenerateFinalReport

Spec == Init /\ [][Next]_vars

----------------------------------------------------------------------------
(* SmartCleaner: the file system of the host *)

PROTECTED_EXTENSIONS ==
    {".exe", ".dll", ".sys", ".py", ".ps1", ".bat", ".cmd", ".jar", ".msi"}
IGNORED_FILES_ON_EMPTY_CHECK == {"thumbs.db", "desktop.ini"}
PROTECTED_SYSTEM_FOLDERS ==
    {"accountpictures", "administrative tools", "application shortcuts",
     "burn", "cd burning", "cookies", "credentials", "cryptneturlcache",
     "devicelds", "dpapimasterkeys", "en-us", "ru-ru", "sendto",
     "start menu", "templates", "windows"}

\* The directories of the model: %LOCALAPPDATA%, %TEMP% in its default
\* place below it, a cache directory and a directory with a protected name.
LOCALAPPDATA == "LocalAppData"
TEMP == "LocalAppData/Temp"
CACHE == "LocalAppData/Cache"
TEMPLATES == "LocalAppData/Cache/Templates"
Dirs == {LOCALAPPDATA, TEMP, CACHE, TEMPLATES}

\* Path.parent and Path.name of a directory.
DirParent(d) ==
    CASE d = TEMP -> LOCALAPPDATA
      [] d = CACHE -> LOCALAPPDATA
      [] d = TEMPLATES -> CACHE
      [] OTHER -> ""
DirName(d) ==
    CASE d = TEMP -> "Temp"
      [] d = CACHE -> "Cache"
      [] d = TEMPLATES -> "Templates"
      [] OTHER -> "LocalAppData"

\* The files of the model, with Path.parent, Path.name, Path.suffix and the
\* age in days of each.
Files ==
    {"LocalAppData/Temp/setup.exe", "LocalAppData/Temp/junk.tmp",
     "LocalAppData/Cache/desktop.ini",
     "LocalAppData/Cache/Templates/old.log",
     "LocalAppData/Cache/Templates/today.log",
     "LocalAppData/Cache/Templates/tool.EXE"}
FileDir(f) ==
    CASE f \in {"LocalAppData/Temp/setup.exe", "LocalAppData/Temp/junk.tmp"} -> TEMP
      [] f = "LocalAppData/Cache/desktop.ini" -> CACHE
      [] OTHER -> TEMPLATES
FileName(f) ==
    CASE f = "LocalAppData/Temp/setup.exe" -> "setup.exe"
      [] f = "LocalAppData/Temp/junk.tmp" -> "junk.tmp"
      [] f = "LocalAppData/Cache/desktop.ini" -> "desktop.ini"
      [] f = "LocalAppData/Cache/Templates/old.log" -> "old.log"
      [] f = "LocalAppData/Cache/Templates/today.log" -> "today.log"
      [] OTHER -> "tool.EXE"
FileSuffix(f) ==
    CASE f = "LocalAppData/Temp/setup.exe" -> ".exe"
      [] f = "LocalAppData/Temp/junk.tmp" -> ".tmp"
      [] f = "LocalAppData/Cache/desktop.ini" -> ".ini"
      [] f = "LocalAppData/Cache/Templates/tool.EXE" -> ".EXE"
      [] OTHER -> ".log"
FileAgeDays(f) ==
    IF f = "LocalAppData/Cache/Templates/today.log" THEN 0 ELSE 90

\* st_size of each file, in bytes.
FileSize(f) ==
    CASE f = "LocalAppData/Temp/setup.exe" -> 6
      [] f = "LocalAppData/Temp/junk.tmp" -> 1
      [] f = "LocalAppData/Cache/desktop.ini" -> 2
      [] f = "LocalAppData/Cache/Templates/old.log" -> 3
      [] f = "LocalAppData/Cache/Templates/today.log" -> 4
      [] OTHER -> 5

\* The sizes of a set of files added up.
RECURSIVE SizeOf(_)
SizeOf(files) ==
    IF files = {} THEN 0
    ELSE LET f == CHOOSE x \in files : TRUE
         IN  FileSize(f) + SizeOf(files \ {f})

\* d is top or lies below it.
RECURSIVE IsUnder(_, _)
IsUnder(d, top) ==
    IF d = "" THEN FALSE ELSE d = top \/ IsUnder(DirParent(d), top)

\* A file system: the files and the directories that exist.
FileSystem(files, dirs) == [files |-> files, dirs |-> dirs]

\* path.iterdir(): the files and directories directly in d.  The base
\* directory of the user's data holds entries outside the model.
FilesIn(fs, d) == {f \in fs.files : FileDir(f) = d}
SubDirs(fs, d) == {x \in fs.dirs : DirParent(x) = d}
HasEntries(fs, d) ==
    d = LOCALAPPDATA \/ FilesIn(fs, d) # {} \/ SubDirs(fs, d) # {}

\* The outcome of an operation: the file system after it, what it removed,
\* what it counted as an error, and the numbers it returns.
Outcome(fs, removed, errors, returned) ==
    [fs |-> fs, removed |-> removed, errors |-> errors, returned |-> returned]

Nothing == CleanupSummary(0, 0, 0)

\* Two returned tuples added up, as the summaries do.
Plus(a, b) ==
    CleanupSummary(a.cleaned_size_bytes + b.cleaned_size_bytes,
             a.deleted_files_count + b.deleted_files_count,
             a.errors + b.errors)

\* _delete_single_file
DeleteSingleFile(fs, f, lck) ==
    IF f \notin fs.files THEN Outcome(fs, {}, {}, Nothing)
    ELSE IF f \in lck THEN Outcome(fs, {}, {f}, CleanupSummary(0, 0, 1))
    ELSE Outcome(FileSystem(fs.files \ {f}, fs.dirs), {f}, {},
                 CleanupSummary(FileSize(f), 1, 0))

\* _clean_directory_content: every item directly in path is removed, a
\* directory with all that is below it.  A directory counts as one deleted
\* item, with the size of all the files below it.
CleanDirectoryContent(fs, path, lck) ==
    IF path \notin fs.dirs THEN Outcome(fs, {}, {}, Nothing)
    ELSE LET direct == FilesIn(fs, path)
             gone == {f \in fs.files :
                        /\ f \notin lck
                        /\ \/ f \in direct
                           \/ \E x \in SubDirs(fs, path) : IsUnder(FileDir(f), x)}
             kept == fs.files \ gone
             emptied == {x \in fs.dirs :
                           /\ x # path /\ IsUnder(x, path)
                           /\ ~ \E f \in kept : IsUnder(FileDir(f), x)}
             below == {f \in fs.files :
                         \E x \in SubDirs(fs, path) : IsUnder(FileDir(f), x)}
         IN  Outcome(FileSystem(kept, fs.dirs \ emptied), gone \cup emptied,
                     direct \cap lck,
                     CleanupSummary(SizeOf(direct \ lck) + SizeOf(below),
                              Cardinality(direct \ lck)
                                  + Cardinality(SubDirs(fs, path)),
                              Cardinality(direct \cap lck)))

\* _cleanup_empty_dirs: an empty directory is removed, and then its parent
\* is looked at in the same way.
RECURSIVE CleanupEmptyDirs(_, _)
CleanupEmptyDirs(fs, path) ==
    IF path \notin fs.dirs \/ HasEntries(fs, path) THEN Outcome(fs, {}, {}, Nothing)
    ELSE LET up == CleanupEmptyDirs(FileSystem(fs.files, fs.dirs \ {path}),
                                    DirParent(path))
         IN  Outcome(up.fs, {path} \cup up.removed, up.errors,
                     Plus(CleanupSummary(0, 1, 0), up.returned))

\* _is_dir_effectively_empty
IsDirEffectivelyEmpty(fs, d) ==
    /\ SubDirs(fs, d) = {}
    /\ \A f \in FilesIn(fs, d) : Lower(FileName(f)) \in IGNORED_FILES_ON_EMPTY_CHECK

\* os.walk(root_path, topdown=False): the directories below a directory
\* come before it.
BOTTOM_UP == <<TEMPLATES, CACHE, TEMP, LOCALAPPDATA>>

\* The loop body of _process_empty_folder_cleanup for a directory other
\* than the root of the walk.
VisitEmptyFolder(fs, d, lck) ==
    IF \/ d \notin fs.dirs
       \/ Lower(DirName(d)) \in PROTECTED_SYSTEM_FOLDERS
       \/ ~ IsDirEffectivelyEmpty(fs, d)
    THEN Outcome(fs, {}, {}, Nothing)
    ELSE IF FilesIn(fs, d) \cap lck # {}
    THEN Outcome(fs, {}, {d}, CleanupSummary(0, 0, 1))
    ELSE Outcome(FileSystem(fs.files \ FilesIn(fs, d), fs.dirs \ {d}),
                 FilesIn(fs, d) \cup {d}, {}, CleanupSummary(0, 1, 0))

\* _process_empty_folder_cleanup, from the k-th directory of the walk on.
RECURSIVE ProcessEmptyFolderCleanup(_, _, _, _)
ProcessEmptyFolderCleanup(fs, root_path, lck, k) ==
    IF k > Len(BOTTOM_UP) THEN Outcome(fs, {}, {}, Nothing)
    ELSE LET d == BOTTOM_UP[k]
             here == IF d # root_path /\ IsUnder(d, root_path)
                     THEN VisitEmptyFolder(fs, d, lck)
                     ELSE Outcome(fs, {}, {}, Nothing)
             rest == ProcessEmptyFolderCleanup(here.fs, root_path, lck, k + 1)
         IN  Outcome(rest.fs, here.removed \cup rest.removed,
                     here.errors \cup rest.errors,
                     Plus(here.returned, rest.returned))

\* fnmatch.filter(filenames, mask) for the masks of the model.
MatchesMask(f, mask) ==
    CASE mask = "*.*" -> TRUE
      [] mask = "*.log" -> FileSuffix(f) = ".log"
      [] OTHER -> FALSE

\* _find_files_by_mask: the files directly in parent_dir that match the
\* mask, have no protected extension and are old enough.
FindFilesByMask(fs, parent_dir, mask, age_days) ==
    IF parent_dir \notin fs.dirs THEN {}
    ELSE {f \in FilesIn(fs, parent_dir) :
            /\ MatchesMask(f, mask)
            /\ Lower(FileSuffix(f)) \notin PROTECTED_EXTENSIONS
            /\ age_days # 0 => FileAgeDays(f) >= age_days}

----------------------------------------------------------------------------
(* SmartCleaner: discovery and the cleanup stage of the pipeline *)

\* The cleanup rules the cleaner is built with: a cache directory cleaned
\* as a whole, and the old files of a directory found by mask.  A path is
\* given by Path(p).parent and Path(p).name when it holds a mask, and by
\* the directory itself when it does not.
CLEANUP_RULES ==
    [app_cache |-> [paths |-> {[dir |-> CACHE, mask |-> ""]}, age_days |-> 0],
     old_files |-> [paths |-> {[dir |-> TEMPLATES, mask |-> "*.*"]}, age_days |-> 30]]

\* _get_dir_size_safe > 0: some file lies below the directory.
DirSizePositive(fs, d) ==
    d \in fs.dirs /\ \E f \in fs.files : IsUnder(FileDir(f), d)

\* _scan_rule: the files found by the masks of the rule and the
\* directories of the rule that hold something.
ScanRule(fs, rule) ==
    [files_to_delete |->
        UNION {FindFilesByMask(fs, p.dir, p.mask, rule.age_days) :
                 p \in {q \in rule.paths : q.mask # ""}},
     folders_to_clean |->
        {p.dir : p \in {q \in rule.paths : q.mask = "" /\ DirSizePositive(fs, q.dir)}}]

\* As JunkSummary, keeping the categories in which nothing was found.
JunkSummary_EveryCategory(fs) ==
    [c \in DOMAIN CLEANUP_RULES |-> ScanRule(fs, CLEANUP_RULES[c])]

\* find_junk_files_deep: the categories in which something was found.
JunkSummary(fs) ==
    LET found == {c \in DOMAIN CLEANUP_RULES :
                    \/ ScanRule(fs, CLEANUP_RULES[c]).files_to_delete # {}
                    \/ ScanRule(fs, CLEANUP_RULES[c]).folders_to_clean # {}}
    IN  [c \in found |-> ScanRule(fs, CLEANUP_RULES[c])]

\* The values the plan can give for "clean": the JSON booleans, and the
\* string "false" an assistant writes in place of the boolean.
CleanValues == {"true", "false", "'false'"}

\* bool(value) of Python for a JSON value: false, null, 0 and the empty
\* string, list and object are false, every other value is true.
Truthy(value) == value \notin {"false", "null", "0", "''", "[]", "{}"}

\* `if not details.get("clean", False): continue`.
SkipsCategory(details) == ~ Truthy(details.clean)

\* What a decision of the cleanup plan holds for perform_deep_cleanup:
\* "clean", and the two lists, empty when the decision has none.
CleanupDecision(clean, files, folders) ==
    [clean |-> clean, files_to_delete |-> files, folders_to_clean |-> folders]

\* The decisions the plan can hold for a category: the verdict alone, as
\* the plan prompt asks for it, a verdict with the lists of the junk
\* report, and a verdict with a list of the assistant's own.
CleanupDecisions(category, report) ==
    {CleanupDecision("false", {}, {}), CleanupDecision("true", {}, {}),
     CleanupDecision("true", {"LocalAppData/Cache/Templates/tool.EXE"}, {})}
        \cup (IF category \in DOMAIN report
              THEN {CleanupDecision(v, report[category].files_to_delete,
                                    report[category].folders_to_clean) :
                        v \in CleanValues}
              ELSE {})

\* The orders in which plan.items() can yield the categories of a plan.
ItemOrders(categories) ==
    {o \in UNION {[1..n -> categories] : n \in 0..2} :
        /\ Len(o) = Cardinality(categories)
        /\ \A i, j \in 1..Len(o) : i # j => o[i] # o[j]}

\* One operation after another.
Then(first, second) ==
    Outcome(second.fs, first.removed \cup second.removed,
            first.errors \cup second.errors,
            Plus(first.returned, second.returned))

\* The files of a list deleted one by one.
RECURSIVE DeleteFiles(_, _, _)
DeleteFiles(fs, files, lck) ==
    IF files = {} THEN Outcome(fs, {}, {}, Nothing)
    ELSE LET f == CHOOSE x \in files : TRUE
             first == DeleteSingleFile(fs, f, lck)
         IN  Then(first, DeleteFiles(first.fs, files \ {f}, lck))

\* The directories of a list cleaned one by one.
RECURSIVE CleanFolders(_, _, _)
CleanFolders(fs, folders, lck) ==
    IF folders = {} THEN Outcome(fs, {}, {}, Nothing)
    ELSE LET d == CHOOSE x \in folders : TRUE
             first == CleanDirectoryContent(fs, d, lck)
         IN  Then(first, CleanFolders(first.fs, folders \ {d}, lck))

\* The directories of a set looked at by _cleanup_empty_dirs one by one.
RECURSIVE CleanupEmptyDirsOf(_, _)
CleanupEmptyDirsOf(fs, dirs) ==
    IF dirs = {} THEN Outcome(fs, {}, {}, Nothing)
    ELSE LET d == CHOOSE x \in dirs : TRUE
             first == CleanupEmptyDirs(fs, d)
         IN  Then(first, CleanupEmptyDirsOf(first.fs, dirs \ {d}))

\* potentially_empty_dirs of perform_deep_cleanup.
PotentiallyEmptyDirs(cleanup) ==
    {FileDir(f) : f \in UNION {cleanup[c].files_to_delete :
                                 c \in {x \in DOMAIN cleanup : ~ SkipsCategory(cleanup[x])}}}

\* The state after an operation on the file system.
Applied(o) ==
    /\ fs_files' = o.fs.files
    /\ fs_dirs' = o.fs.dirs
    /\ deleted' = deleted \cup o.removed
    /\ failed_deletions' = failed_deletions \cup o.errors

CurrentFs == FileSystem(fs_files, fs_dirs)

\* Stage 3: find_junk_files_deep fills the junk-file report.
FindJunkFilesDeep ==
    /\ cleaner_todo.phase = "idle"
    /\ junk_files_report' = JunkSummary(CurrentFs)
    /\ cleaner_todo' = [cleaner_todo EXCEPT !.phase = "scanned"]
    /\ UNCHANGED <<fs_files, fs_dirs, locked, deep_cleanup_plan, deleted,
                   failed_deletions, deep_summary, deep_removed, session_vars, validation_vars,
                   pipeline_vars, knowledge_base, user_profiles, response, plan>>

\* Stage 5 starts: _step_execute_full_cleanup takes the cleanup plan of the
\* session and starts the standard and the deep cleanup together.
StepExecuteFullCleanup ==
    /\ cleaner_todo.phase = "scanned"
    /\ \E categories \in SUBSET DOMAIN CLEANUP_RULES :
         \E p \in [categories -> UNION {CleanupDecisions(c, junk_files_report) :
                                          c \in DOMAIN CLEANUP_RULES}] :
           \E order \in ItemOrders(categories) :
             /\ \A c \in categories : p[c] \in CleanupDecisions(c, junk_files_report)
             /\ deep_cleanup_plan' = p
             /\ cleaner_todo' = [cleaner_todo EXCEPT !.phase = "cleaning",
                                                     !.deep = order]
    /\ UNCHANGED <<fs_files, fs_dirs, locked, junk_files_report, deleted,
                   failed_deletions, deep_summary, deep_removed, session_vars, validation_vars,
                   pipeline_vars, knowledge_base, user_profiles, response, plan>>

\* perform_standard_cleanup: the content of %TEMP% is cleaned; its other
\* paths lie outside the user's data.
PerformStandardCleanup ==
    /\ cleaner_todo.phase = "cleaning"
    /\ ~ cleaner_todo.standard
    /\ Applied(CleanDirectoryContent(CurrentFs, TEMP, locked))
    /\ cleaner_todo' = [cleaner_todo EXCEPT
                          !.standard = TRUE,
                          !.cleaned = IF TEMP \in fs_dirs THEN @ \cup {TEMP} ELSE @]
    /\ UNCHANGED <<locked, junk_files_report, deep_cleanup_plan,
                   deep_summary, deep_removed,
                   session_vars, validation_vars,
                   pipeline_vars, knowledge_base, user_profiles, response, plan>>

\* perform_deep_cleanup, one category of the plan.
DeepCleanCategory ==
    /\ cleaner_todo.phase = "cleaning"
    /\ cleaner_todo.deep # <<>>
    /\ LET details == deep_cleanup_plan[Head(cleaner_todo.deep)]
           files == DeleteFiles(CurrentFs, details.files_to_delete, locked)
           folders == CleanFolders(files.fs, details.folders_to_clean, locked)
       IN  IF SkipsCategory(details)
           THEN /\ UNCHANGED <<fs_files, fs_dirs, deleted, failed_deletions,
                               deep_summary, deep_removed>>
                /\ cleaner_todo' = [cleaner_todo EXCEPT !.deep = Tail(@)]
           ELSE /\ Applied(Then(files, folders))
                /\ deep_summary' = Plus(deep_summary, Then(files, folders).returned)
                /\ deep_removed' = deep_removed \cup Then(files, folders).removed
                /\ cleaner_todo' =
                     [cleaner_todo EXCEPT
                        !.deep = Tail(@),
                        !.cleaned = @ \cup (details.folders_to_clean \cap fs_dirs)]
    /\ UNCHANGED <<locked, junk_files_report, deep_cleanup_plan,
                   session_vars, validation_vars,
                   pipeline_vars, knowledge_base, user_profiles, response, plan>>

\* perform_deep_cleanup after its categories: the parents of the listed
\* files are removed when they are empty, and counted in the summary.
DeepCleanupParents ==
    /\ cleaner_todo.phase = "cleaning"
    /\ cleaner_todo.deep = <<>>
    /\ ~ cleaner_todo.parents
    /\ Applied(CleanupEmptyDirsOf(CurrentFs, PotentiallyEmptyDirs(deep_cleanup_plan)))
    /\ LET parents == CleanupEmptyDirsOf(CurrentFs,
                                         PotentiallyEmptyDirs(deep_cleanup_plan))
       IN  /\ deep_summary' = Plus(deep_summary, parents.returned)
           /\ deep_removed' = deep_removed \cup parents.removed
    /\ cleaner_todo' = [cleaner_todo EXCEPT !.parents = TRUE]
    /\ UNCHANGED <<locked, junk_files_report, deep_cleanup_plan,
                   session_vars, validation_vars,
                   pipeline_vars, knowledge_base, user_profiles, response, plan>>

\* The base paths of cleanup_all_empty_folders_async that lie in the model.
BASE_PATHS_TO_SCAN == {LOCALAPPDATA, TEMP}

\* cleanup_all_empty_folders_async, called when both cleanups are done: one
\* task for each base path that is a directory.
CleanupAllEmptyFoldersAsync ==
    /\ cleaner_todo.phase = "cleaning"
    /\ cleaner_todo.standard
    /\ cleaner_todo.parents
    /\ cleaner_todo' = [cleaner_todo EXCEPT
                          !.phase = "emptying",
                          !.bases = BASE_PATHS_TO_SCAN \cap fs_dirs]
    /\ UNCHANGED <<fs_files, fs_dirs, locked, junk_files_report,
                   deep_cleanup_plan, deleted, failed_deletions, deep_summary, deep_removed,
                   session_vars, validation_vars,
                   pipeline_vars, knowledge_base, user_profiles, response, plan>>

\* One task of the empty-directory pass; the stage ends with the last one.
ProcessEmptyFolderCleanupDone(root_path) ==
    /\ cleaner_todo.phase = "emptying"
    /\ root_path \in cleaner_todo.bases
    /\ Applied(ProcessEmptyFolderCleanup(CurrentFs, root_path, locked, 1))
    /\ cleaner_todo' = [cleaner_todo EXCEPT
                          !.bases = @ \ {root_path},
                          !.phase = IF cleaner_todo.bases = {root_path}
                                    THEN "done" ELSE @]
    /\ UNCHANGED <<locked, junk_files_report, deep_cleanup_plan,
                   deep_summary, deep_removed,
                   session_vars, validation_vars,
                   pipeline_vars, knowledge_base, user_profiles, response, plan>>

\* The files that another process can hold open.
LockedSets == {{}, {"LocalAppData/Temp/junk.tmp"}, {"LocalAppData/Cache/desktop.ini"}}

\* The directories a host can have: the user's data directory, and below it
\* any of the others whose parent exists.
DirSets ==
    {D \in SUBSET Dirs :
        /\ LOCALAPPDATA \in D
        /\ \A d \in D : d = LOCALAPPDATA \/ DirParent(d) \in D}

InitCleaner ==
    /\ knowledge_base = KnowledgeBase(<<>>, <<>>)
    /\ user_profiles = {}
    /\ response = NoResponse
    /\ plan = NoPlan
    /\ installed_services = {}
    /\ NothingValidated
    /\ PipelineIdle
    /\ SessionIdle
    /\ fs_dirs \in DirSets
    /\ fs_files \in SUBSET {f \in Files : FileDir(f) \in fs_dirs}
    /\ locked \in {l \in LockedSets : l \subseteq fs_files}
    /\ junk_files_report = NoEntries
    /\ deep_cleanup_plan = NoEntries
    /\ cleaner_todo = NothingToDo
    /\ deleted = {}
    /\ failed_deletions = {}
    /\ deep_summary = Nothing
    /\ deep_removed = {}

NextCleaner ==
    \/ FindJunkFilesDeep
    \/ StepExecuteFullCleanup
    \/ PerformStandardCleanup
    \/ DeepCleanCategory
    \/ DeepCleanupParents
    \/ CleanupAllEmptyFoldersAsync
    \/ \E root_path \in BASE_PATHS_TO_SCAN : ProcessEmptyFolderCleanupDone(root_path)

SpecCleaner == InitCleaner /\ [][NextCleaner]_vars

----------------------------------------------------------------------------
(* The component cache of the core: data collection requested again and again *)

CACHE_TTL_MINUTES == 5

\* The components an enumeration returns, known by the time it started at.
Components(at) == [present |-> TRUE, captured |-> at]

\* The test of _step_collect_data_for_ai: both fields set and the last scan
\* less than the TTL ago.
CacheIsFresh(cached, last, now) ==
    /\ cached.present
    /\ last # NoTime
    /\ now - last < CACHE_TTL_MINUTES

\* Time passes.
Tick ==
    /\ clock < MaxClock
    /\ clock' = clock + 1
    /\ UNCHANGED <<registry_vars, failed_calls, ai_vars, profile_vars, window_vars, checks_vars, scan_vars, last_scan_time, cached_system_components, collect, requests,
                   cleaner_vars, validation_vars, pipeline_vars, knowledge_base,
                   user_profiles, response, plan>>

\* _step_collect_data_for_ai up to the gather: the cached components are
\* taken, or an enumeration is started and its time written down.
StepCollectDataForAi ==
    /\ collect.pc = "idle"
    /\ Len(requests) < MaxRequests
    /\ LET fresh == CacheIsFresh(cached_system_components, last_scan_time, clock)
       IN  /\ collect' = [pc |-> IF fresh THEN "reusing" ELSE "enumerating",
                          started |-> clock]
           /\ last_scan_time' = IF fresh THEN last_scan_time ELSE clock
           /\ requests' = Append(requests,
                                 [at |-> clock, reused |-> fresh,
                                  held |-> cached_system_components])
    /\ UNCHANGED <<registry_vars, failed_calls, ai_vars, profile_vars, window_vars, checks_vars, scan_vars, clock, cached_system_components, cleaner_vars, validation_vars,
                   pipeline_vars, knowledge_base, user_profiles, response, plan>>

\* The gather returns: what it yields is written to the cache slot.
CollectGathered ==
    /\ collect.pc \in {"reusing", "enumerating"}
    /\ cached_system_components' =
         IF collect.pc = "reusing" THEN cached_system_components
         ELSE Components(collect.started)
    /\ collect' = NotCollecting
    /\ UNCHANGED <<registry_vars, failed_calls, ai_vars, profile_vars, window_vars, checks_vars, scan_vars, clock, last_scan_time, requests, cleaner_vars, validation_vars,
                   pipeline_vars, knowledge_base, user_profiles, response, plan>>

\* get_system_components raises (the worker pool or the packaged-app
\* enumeration fails): the gather raises and the stage ends with it.
CollectRaises ==
    /\ collect.pc = "enumerating"
    /\ collect' = NotCollecting
    /\ UNCHANGED <<registry_vars, failed_calls, ai_vars, profile_vars, window_vars, checks_vars, scan_vars, clock, last_scan_time, cached_system_components, requests,
                   cleaner_vars, validation_vars, pipeline_vars, knowledge_base,
                   user_profiles, response, plan>>

InitCache ==
    /\ knowledge_base = KnowledgeBase(<<>>, <<>>)
    /\ user_profiles = {}
    /\ response = NoResponse
    /\ plan = NoPlan
    /\ installed_services = {}
    /\ NothingValidated
    /\ PipelineIdle
    /\ CleanerIdle
    /\ CacheIdle
    /\ RegistryIdle
    /\ AiCacheIdle
    /\ ProfileIdle
    /\ WindowIdle
    /\ ChecksIdle
    /\ ScanIdle
    /\ failed_calls = {}

NextCache ==
    \/ Tick
    \/ StepCollectDataForAi
    \/ CollectGathered
    \/ CollectRaises

SpecCache == InitCache /\ [][NextCache]_vars

----------------------------------------------------------------------------
(* The follow-up tasks of the core: spawn, completion, shutdown, close *)

\* The event loops a run can be awaited in: the loop AsyncWorker.run makes
\* and closes for it, and the loop of the application, in which shutdown
\* and the close handler run.
LOOPS == {"worker", "main"}

\* The loop of a task can still run callbacks.
LoopOpen(t) == t.loop = "main" \/ ~ t.closed

\* The asyncio task has completed, with the suggestions ("done") or with
\* the warning logged for a failed request ("failed").
Completed(t) == t.state \in {"done", "failed"}

\* As GatherDone, for a wait that ends with the first task.
GatherDone_FirstCompleted(gathered, tasks) ==
    \E k \in gathered : tasks[k].callback = "ran"

\* asyncio.gather(*tasks, return_exceptions=True) has its result: the done
\* callbacks of every task have run, the gather's after the registry's.
GatherDone(gathered, tasks) ==
    \A k \in gathered : tasks[k].callback = "ran"

\* The end of run_autonomous_optimization in a loop: the follow-up task is
\* created, added to background_tasks and given its done callback.  A
\* worker is started only when the one before it has finished.
SpawnFollowUp(k, loop) ==
    /\ follow_ups[k].state = "none"
    /\ \A j \in 1..MaxRuns : j < k => follow_ups[j].state # "none"
    /\ loop = "worker" => \A j \in 1..MaxRuns :
                              follow_ups[j].loop = "worker" => follow_ups[j].closed
    /\ follow_ups' = [follow_ups EXCEPT ![k] =
                        [loop |-> loop, state |-> "created", callback |-> "none",
                         closed |-> FALSE]]
    /\ tracked' = tracked \cup {k}
    /\ UNCHANGED <<shutdown_call, close_wait, cache_vars, failed_calls, ai_vars, profile_vars, window_vars, checks_vars, scan_vars, cleaner_vars,
                   validation_vars, pipeline_vars, knowledge_base, user_profiles,
                   response, plan>>

\* The first step of _run_ai_self_reflection: it suspends in the request to
\* the model, or the request fails before it suspends and the task is over.
FollowUpFirstStep(k) ==
    /\ follow_ups[k].state = "created"
    /\ LoopOpen(follow_ups[k])
    /\ \/ follow_ups' = [follow_ups EXCEPT ![k].state = "suspended"]
       \/ follow_ups' = [follow_ups EXCEPT ![k].state = "failed",
                                           ![k].callback = "scheduled"]
    /\ UNCHANGED <<tracked, shutdown_call, close_wait, cache_vars, failed_calls, ai_vars, profile_vars, window_vars, checks_vars, scan_vars, cleaner_vars,
                   validation_vars, pipeline_vars, knowledge_base, user_profiles,
                   response, plan>>

\* AsyncWorker.run: run_until_complete returns after the loop iteration
\* that follows the run's last step, and the loop is closed.
WorkerLoopCloses(k) ==
    /\ follow_ups[k].loop = "worker"
    /\ ~ follow_ups[k].closed
    /\ follow_ups[k].state # "created"
    /\ follow_ups' = [follow_ups EXCEPT ![k].closed = TRUE]
    /\ UNCHANGED <<tracked, shutdown_call, close_wait, cache_vars, failed_calls, ai_vars, profile_vars, window_vars, checks_vars, scan_vars, cleaner_vars,
                   validation_vars, pipeline_vars, knowledge_base, user_profiles,
                   response, plan>>

\* The model answers or fails: the task ends and its callbacks are scheduled.
FollowUpResumes(k) ==
    /\ follow_ups[k].state = "suspended"
    /\ LoopOpen(follow_ups[k])
    /\ \E o \in {"done", "failed"} :
         follow_ups' = [follow_ups EXCEPT ![k].state = o,
                                          ![k].callback = "scheduled"]
    /\ UNCHANGED <<tracked, shutdown_call, close_wait, cache_vars, failed_calls, ai_vars, profile_vars, window_vars, checks_vars, scan_vars, cleaner_vars,
                   validation_vars, pipeline_vars, knowledge_base, user_profiles,
                   response, plan>>

\* The done callbacks of a task run: background_tasks.discard(task).
DoneCallback(k) ==
    /\ follow_ups[k].callback = "scheduled"
    /\ LoopOpen(follow_ups[k])
    /\ follow_ups' = [follow_ups EXCEPT ![k].callback = "ran"]
    /\ tracked' = tracked \ {k}
    /\ UNCHANGED <<shutdown_call, close_wait, cache_vars, failed_calls, ai_vars, profile_vars, window_vars, checks_vars, scan_vars, cleaner_vars,
                   validation_vars, pipeline_vars, knowledge_base, user_profiles,
                   response, plan>>

\* WinSpectorCore.shutdown is called in the loop of the application: it
\* returns at once for an empty set; a gather over a task of another loop
\* raises RuntimeError; otherwise it waits.
Shutdown ==
    /\ shutdown_call.pc = "idle"
    /\ shutdown_call' =
         IF tracked = {} THEN [pc |-> "returned", gathered |-> {}]
         ELSE IF \E k \in tracked : follow_ups[k].loop # "main"
         THEN [pc |-> "RuntimeError", gathered |-> tracked]
         ELSE [pc |-> "waiting", gathered |-> tracked]
    /\ UNCHANGED <<follow_ups, tracked, close_wait, cache_vars, failed_calls, ai_vars, profile_vars, window_vars, checks_vars, scan_vars, cleaner_vars,
                   validation_vars, pipeline_vars, knowledge_base, user_profiles,
                   response, plan>>

\* The gather of shutdown has its result and shutdown returns.
ShutdownReturns ==
    /\ shutdown_call.pc = "waiting"
    /\ GatherDone(shutdown_call.gathered, follow_ups)
    /\ shutdown_call' = [shutdown_call EXCEPT !.pc = "returned"]
    /\ UNCHANGED <<follow_ups, tracked, close_wait, cache_vars, failed_calls, ai_vars, profile_vars, window_vars, checks_vars, scan_vars, cleaner_vars,
                   validation_vars, pipeline_vars, knowledge_base, user_profiles,
                   response, plan>>

\* MainWindow.closeEvent: the close is accepted when no task is tracked,
\* and otherwise put off until the set is seen empty.
CloseEvent ==
    /\ close_wait = "idle"
    /\ close_wait' = IF tracked = {} THEN "closed" ELSE "waiting"
    /\ UNCHANGED <<follow_ups, tracked, shutdown_call, cache_vars, failed_calls, ai_vars, profile_vars, window_vars, checks_vars, scan_vars, cleaner_vars,
                   validation_vars, pipeline_vars, knowledge_base, user_profiles,
                   response, plan>>

\* wait_for_tasks_and_close sees the set empty and closes the window.
WaitForTasksAndClose ==
    /\ close_wait = "waiting"
    /\ tracked = {}
    /\ close_wait' = "closed"
    /\ UNCHANGED <<follow_ups, tracked, shutdown_call, cache_vars, failed_calls, ai_vars, profile_vars, window_vars, checks_vars, scan_vars, cleaner_vars,
                   validation_vars, pipeline_vars, knowledge_base, user_profiles,
                   response, plan>>

InitTasks ==
    /\ knowledge_base = KnowledgeBase(<<>>, <<>>)
    /\ user_profiles = {}
    /\ response = NoResponse
    /\ plan = NoPlan
    /\ installed_services = {}
    /\ NothingValidated
    /\ PipelineIdle
    /\ CleanerIdle
    /\ CacheIdle
    /\ RegistryIdle
    /\ AiCacheIdle
    /\ ProfileIdle
    /\ WindowIdle
    /\ ChecksIdle
    /\ ScanIdle
    /\ failed_calls = {}

NextTasks ==
    \/ \E k \in 1..MaxRuns, loop \in LOOPS : SpawnFollowUp(k, loop)
    \/ \E k \in 1..MaxRuns : FollowUpFirstStep(k)
    \/ \E k \in 1..MaxRuns : WorkerLoopCloses(k)
    \/ \E k \in 1..MaxRuns : FollowUpResumes(k)
    \/ \E k \in 1..MaxRuns : DoneCallback(k)
    \/ Shutdown
    \/ ShutdownReturns
    \/ CloseEvent
    \/ WaitForTasksAndClose

SpecTasks == InitTasks /\ [][NextTasks]_vars

\* Every loop that is open goes on running what is ready in it.
SpecTasksFair == SpecTasks /\ WF_vars(NextTasks)

----------------------------------------------------------------------------
(* The response cache of AIAnalyzer: _get_response_with_cache called again and again *)

\* self.config.get('ai_cache_ttl', 3600), in seconds.
ai_cache_ttl == 3600

\* The times that pass between two steps.
Delays == {1799, 1800}

\* What generate_content_async can come back with.
ModelResponses == {"text", "blocked", "error"}

\* As CachedIsFresh, with an entry that never expires.
CachedIsFresh_NoExpiry(cached, now) == cached.present

\* The test of _get_response_with_cache on what self.cache.get returned.
CachedIsFresh(cached, now) ==
    /\ cached.present
    /\ now - cached.timestamp < ai_cache_ttl

\* Time passes.
AiTick ==
    /\ \E d \in Delays :
         /\ ai_time + d <= MaxAiTime
         /\ ai_time' = ai_time + d
    /\ UNCHANGED <<ai_cache, call_count, ai_requests, requests_made, last_returned,
                   cache_vars, registry_vars,
                   failed_calls, profile_vars, window_vars, checks_vars, scan_vars, cleaner_vars, validation_vars, pipeline_vars,
                   knowledge_base, user_profiles, response, plan>>

\* _get_response_with_cache up to the await: a fresh cached text is
\* returned, otherwise the model is called.
GetResponseWithCache ==
    /\ requests_made < MaxAiRequests
    /\ requests_made' = requests_made + 1
    /\ \E prompt \in Prompts, use_cache \in BOOLEAN :
         LET cached == ai_cache[PromptHash(prompt)]
         IN  IF use_cache /\ CachedIsFresh(cached, ai_time)
             THEN /\ last_returned' = Returns(prompt, use_cache, "cached", cached.text)
                  /\ UNCHANGED <<call_count, ai_requests>>
             ELSE /\ call_count' = call_count + 1
                  /\ ai_requests' = ai_requests \cup
                        {Returns(prompt, use_cache, "pending", call_count + 1)}
                  /\ UNCHANGED last_returned
    /\ UNCHANGED <<ai_time, ai_cache, cache_vars, registry_vars,
                   failed_calls, profile_vars, window_vars, checks_vars, scan_vars, cleaner_vars, validation_vars, pipeline_vars,
                   knowledge_base, user_profiles, response, plan>>

\* generate_content_async returns to a call: a blocked response and an
\* error of the service are raised, a text is stored when use_cache is set,
\* and returned.
ModelResponds ==
    /\ \E r \in ai_requests, kind \in ModelResponses :
         /\ ai_requests' = ai_requests \ {r}
         /\ last_returned' = Returns(r.prompt, r.use_cache,
                                     IF kind = "text" THEN "fresh" ELSE kind, r.text)
         /\ ai_cache' =
               IF kind = "text" /\ r.use_cache
               THEN [ai_cache EXCEPT ![PromptHash(r.prompt)] = Cached(r.text, ai_time)]
               ELSE ai_cache
    /\ UNCHANGED <<ai_time, call_count, requests_made, cache_vars, registry_vars,
                   failed_calls, profile_vars, window_vars, checks_vars, scan_vars, cleaner_vars, validation_vars, pipeline_vars,
                   knowledge_base, user_profiles, response, plan>>

InitAiCache ==
    /\ knowledge_base = KnowledgeBase(<<>>, <<>>)
    /\ user_profiles = {}
    /\ response = NoResponse
    /\ plan = NoPlan
    /\ installed_services = {}
    /\ NothingValidated
    /\ PipelineIdle
    /\ CleanerIdle
    /\ CacheIdle
    /\ RegistryIdle
    /\ failed_calls = {}
    /\ AiCacheIdle
    /\ ProfileIdle
    /\ WindowIdle
    /\ ChecksIdle
    /\ ScanIdle

NextAiCache ==
    \/ AiTick
    \/ GetResponseWithCache
    \/ ModelResponds

SpecAiCache == InitAiCache /\ [][NextAiCache]_vars

----------------------------------------------------------------------------
(* AICommunicator.determine_user_profile on the answers of the reasoning service *)

\* The JSON values an answer to the profile prompt can hold: an object with
\* or without the key "profiles", a list, and a scalar.  The value of
\* "profiles" is a list of strings and numbers, or no list.
ProfileItems == {JsonString("Developer"), JsonString("Gamer"), JsonNumber("7")}
ProfilesValue(is_list, items) == [is_list |-> is_list, items |-> items]
ProfileObject(has_profiles, profiles) ==
    [shape |-> "object", has_profiles |-> has_profiles, profiles |-> profiles]
EmptyObject == ProfileObject(FALSE, ProfilesValue(FALSE, <<>>))
JsonList == [shape |-> "list", has_profiles |-> FALSE, profiles |-> ProfilesValue(FALSE, <<>>)]
JsonScalar == [shape |-> "scalar", has_profiles |-> FALSE, profiles |-> ProfilesValue(FALSE, <<>>)]
ProfileValues ==
    {EmptyObject, JsonList, JsonScalar, ProfileObject(TRUE, ProfilesValue(FALSE, <<>>))}
        \cup {ProfileObject(TRUE, ProfilesValue(TRUE, items)) :
                 items \in SeqsUpTo(ProfileItems, MaxProfiles)}

\* The answers to the profile prompt.
ProfileResponses ==
    {Response(kind, EmptyObject) : kind \in {"api_error", "blocked", "not_json"}}
        \cup {Response(kind, v) : kind \in {"fenced", "plain", "truncated"},
                                  v \in ProfileValues}

\* AIBase._get_response_with_cache: the text of the answer, "{}" for a
\* failed request and for a blocked answer.
ResponseText(resp) ==
    IF resp.kind \in {"api_error", "blocked"} THEN Response("plain", EmptyObject)
    ELSE resp

\* The texts of a list of JSON strings.
Texts(items) == [i \in DOMAIN items |-> Str(items[i])]

\* determine_user_profile on an answer.
DetermineUserProfileResult(resp) ==
    LET parsed == ExtractJson(ResponseText(resp))
    IN  IF parsed.raised THEN ProfileCall("returned", <<"HomeUser">>)
        ELSE IF parsed.value.shape # "object" THEN ProfileCall("AttributeError", <<>>)
        ELSE IF ~ parsed.value.has_profiles THEN ProfileCall("returned", <<"HomeUser">>)
        ELSE LET profiles == parsed.value.profiles
             IN  IF \/ ~ profiles.is_list
                    \/ \E i \in DOMAIN profiles.items : ~ profiles.items[i].is_str
                    \/ profiles.items = <<>>
                 THEN ProfileCall("returned", <<"HomeUser">>)
                 ELSE ProfileCall("returned", Texts(profiles.items))

\* determine_user_profile is called with the answer.
DetermineUserProfile ==
    /\ profile_call.pc = "idle"
    /\ profile_call' = DetermineUserProfileResult(profile_response)
    /\ UNCHANGED <<profile_response, cache_vars, registry_vars, failed_calls, ai_vars,
                   window_vars, checks_vars, scan_vars,
                   cleaner_vars, validation_vars, pipeline_vars,
                   knowledge_base, user_profiles, response, plan>>

InitProfile ==
    /\ knowledge_base = KnowledgeBase(<<>>, <<>>)
    /\ user_profiles = {}
    /\ response = NoResponse
    /\ plan = NoPlan
    /\ installed_services = {}
    /\ NothingValidated
    /\ PipelineIdle
    /\ CleanerIdle
    /\ CacheIdle
    /\ RegistryIdle
    /\ failed_calls = {}
    /\ AiCacheIdle
    /\ profile_response \in ProfileResponses
    /\ profile_call = ProfileCall("idle", <<>>)
    /\ WindowIdle
    /\ ChecksIdle
    /\ ScanIdle

NextProfile == DetermineUserProfile

SpecProfile == InitProfile /\ [][NextProfile]_vars

----------------------------------------------------------------------------
(* MainWindow and its AsyncWorker threads: start, cancel, the worker's signals *)

\* An AsyncWorker: where its thread is, its is_cancelled flag and what the
\* coroutine gave.  The thread runs the stages of the pipeline that are
\* followed by a cancellation check ("stages"), then the report stage
\* ("report"); when the coroutine has ended ("returned") it reads the flag,
\* emits its signal ("emit") and leaves run through the finally block
\* ("finally").
AsyncWorker(at, is_cancelled, gave) ==
    [pc |-> at, is_cancelled |-> is_cancelled, result |-> gave]

\* As IsRunning, with a cancelled worker counted as stopped.
IsRunning_UntilCancelled(w) == w.pc # "ended" /\ ~ w.is_cancelled

\* QThread.isRunning: from start() until run has returned.
IsRunning(w) == w.pc # "ended"

\* self.worker and self.worker.isRunning()
WorkerIsRunning == window.worker # 0 /\ IsRunning(workers[window.worker])

\* go_to_home_page
GoToHomePage(w) == [w EXCEPT !.page = "home", !.start_enabled = TRUE]

\* UNCHANGED for the steps of the window and of its workers.
WindowStep ==
    UNCHANGED <<cache_vars, registry_vars, failed_calls, ai_vars, profile_vars,
                checks_vars, scan_vars, cleaner_vars, validation_vars, pipeline_vars,
                knowledge_base, user_profiles, response, plan>>

\* A click on the start button: start_autonomous_optimization.
StartAutonomousOptimization ==
    /\ signals = <<>>
    /\ window.page = "home"
    /\ window.start_enabled
    /\ IF WorkerIsRunning
       THEN /\ window' = [window EXCEPT !.refused = TRUE]
            /\ UNCHANGED workers
       ELSE /\ Len(workers) < MaxWorkers
            /\ workers' = Append(workers, AsyncWorker("stages", FALSE, "none"))
            /\ window' = [window EXCEPT !.page = "processing",
                                        !.start_enabled = FALSE,
                                        !.cancel_enabled = TRUE,
                                        !.worker = Len(workers) + 1,
                                        !.refused = FALSE]
    /\ UNCHANGED <<signals, delivered>>
    /\ WindowStep

\* A click on the cancel button: cancel_optimization sets the flag of a
\* running worker and starts the timer that leads to the home page.
CancelOptimization ==
    /\ signals = <<>>
    /\ window.page = "processing"
    /\ window.cancel_enabled
    /\ IF WorkerIsRunning
       THEN /\ workers' = [workers EXCEPT ![window.worker].is_cancelled = TRUE]
            /\ window' = [window EXCEPT !.cancel_enabled = FALSE,
                                        !.timers = @ + 1]
       ELSE /\ window' = [window EXCEPT !.timers = @ + 1]
            /\ UNCHANGED workers
    /\ UNCHANGED <<signals, delivered>>
    /\ WindowStep

\* QTimer.singleShot(500, self.go_to_home_page) fires.
TimerFires ==
    /\ signals = <<>>
    /\ window.timers > 0
    /\ window' = [GoToHomePage(window) EXCEPT !.timers = @ - 1]
    /\ UNCHANGED <<workers, signals, delivered>>
    /\ WindowStep

\* A click on the back button of the results page.
BackToHomePage ==
    /\ signals = <<>>
    /\ window.page = "results"
    /\ window' = GoToHomePage(window)
    /\ UNCHANGED <<workers, signals, delivered>>
    /\ WindowStep

\* _check_cancellation after a stage: the coroutine returns its
\* cancellation text when the flag is set, and goes on otherwise; after the
\* check that follows the execution stage only the report stage is left.
CheckCancellation(k) ==
    /\ k \in DOMAIN workers
    /\ workers[k].pc = "stages"
    /\ workers' = [workers EXCEPT ![k] =
                      IF @.is_cancelled THEN AsyncWorker("returned", TRUE, "cancelled")
                      ELSE AsyncWorker("report", FALSE, "none")]
    /\ UNCHANGED <<window, signals, delivered>>
    /\ WindowStep

\* A stage raises: run_autonomous_optimization re-raises.
StageRaises(k) ==
    /\ k \in DOMAIN workers
    /\ workers[k].pc \in {"stages", "report"}
    /\ workers' = [workers EXCEPT ![k].pc = "returned", ![k].result = "error"]
    /\ UNCHANGED <<window, signals, delivered>>
    /\ WindowStep

\* The report stage is done: the coroutine returns the report.
ReportReturned(k) ==
    /\ k \in DOMAIN workers
    /\ workers[k].pc = "report"
    /\ workers' = [workers EXCEPT ![k].pc = "returned", ![k].result = "report"]
    /\ UNCHANGED <<window, signals, delivered>>
    /\ WindowStep

\* AsyncWorker.run reads the flag: "if not self.is_cancelled".
WorkerReadsFlag(k) ==
    /\ k \in DOMAIN workers
    /\ workers[k].pc = "returned"
    /\ workers' = [workers EXCEPT ![k].pc = IF workers[k].is_cancelled THEN "finally"
                                                ELSE "emit"]
    /\ UNCHANGED <<window, signals, delivered>>
    /\ WindowStep

\* AsyncWorker.run emits finished or error; the signal is queued for the
\* thread of the window.
WorkerEmits(k) ==
    /\ k \in DOMAIN workers
    /\ workers[k].pc = "emit"
    /\ signals' = Append(signals,
                         [worker |-> k,
                          signal |-> IF workers[k].result = "error" THEN "error"
                                     ELSE "finished"])
    /\ workers' = [workers EXCEPT ![k].pc = "finally"]
    /\ UNCHANGED <<window, delivered>>
    /\ WindowStep

\* AsyncWorker.run returns: the loop is closed and the thread ends.
WorkerEnds(k) ==
    /\ k \in DOMAIN workers
    /\ workers[k].pc = "finally"
    /\ workers' = [workers EXCEPT ![k].pc = "ended"]
    /\ UNCHANGED <<window, signals, delivered>>
    /\ WindowStep

\* The window handles the next queued signal: _on_optimization_finished
\* shows the results page, _on_optimization_error goes to the home page;
\* both forget the worker.
SignalDelivered ==
    /\ signals # <<>>
    /\ signals' = Tail(signals)
    /\ delivered' = Append(delivered, Head(signals))
    /\ window' = IF Head(signals).signal = "finished"
                 THEN [window EXCEPT !.page = "results", !.worker = 0]
                 ELSE [GoToHomePage(window) EXCEPT !.worker = 0]
    /\ UNCHANGED workers
    /\ WindowStep

InitWindow ==
    /\ knowledge_base = KnowledgeBase(<<>>, <<>>)
    /\ user_profiles = {}
    /\ response = NoResponse
    /\ plan = NoPlan
    /\ installed_services = {}
    /\ NothingValidated
    /\ PipelineIdle
    /\ CleanerIdle
    /\ CacheIdle
    /\ RegistryIdle
    /\ failed_calls = {}
    /\ AiCacheIdle
    /\ ProfileIdle
    /\ ChecksIdle
    /\ ScanIdle
    /\ window = HomeWindow
    /\ workers = <<>>
    /\ signals = <<>>
    /\ delivered = <<>>

NextWindow ==
    \/ StartAutonomousOptimization
    \/ CancelOptimization
    \/ TimerFires
    \/ BackToHomePage
    \/ SignalDelivered
    \/ \E k \in 1..MaxWorkers :
         \/ CheckCancellation(k)
         \/ StageRaises(k)
         \/ ReportReturned(k)
         \/ WorkerReadsFlag(k)
         \/ WorkerEmits(k)
         \/ WorkerEnds(k)

SpecWindow == InitWindow /\ [][NextWindow]_vars

----------------------------------------------------------------------------
(* The threads of _cleanup_empty_dirs that perform_deep_cleanup runs together *)

\* A call of _cleanup_empty_dirs in a thread of asyncio.to_thread: the
\* directory it looks at, the statement it is about to run, the directories
\* it counted as deleted and the directories it counted an error for.
DirCheck(path, at, deleted_count, error_count) ==
    [path |-> path, pc |-> at, deleted_count |-> deleted_count, error_count |-> error_count]

\* potentially_empty_dirs: a set of parents of listed files, one thread each.
CheckOrders ==
    {o \in UNION {[1..n -> Dirs \ {LOCALAPPDATA}] : n \in 1..MaxChecks} :
        \A i, j \in DOMAIN o : i # j => o[i] # o[j]}

\* UNCHANGED for the steps of the threads.
CheckStep ==
    UNCHANGED <<fs_files, locked, junk_files_report, deep_cleanup_plan, cleaner_todo,
                deleted, failed_deletions, deep_summary, deep_removed,
                cache_vars, registry_vars, failed_calls, ai_vars, profile_vars,
                window_vars, scan_vars, validation_vars, pipeline_vars,
                knowledge_base, user_profiles, response, plan>>

\* `if not path.is_dir() or not os.path.exists(path): return 0, 0`
CheckIsDir(k) ==
    /\ dir_checks[k].pc = "is_dir"
    /\ dir_checks' = [dir_checks EXCEPT
                        ![k].pc = IF dir_checks[k].path \in fs_dirs
                                  THEN "iterdir" ELSE "done"]
    /\ UNCHANGED <<fs_dirs, rmdir_log>>
    /\ CheckStep

\* `if not any(path.iterdir())`: FileNotFoundError (an OSError) when the
\* directory is gone, and the except clause counts an error.
CheckIterdir(k) ==
    /\ dir_checks[k].pc = "iterdir"
    /\ LET path == dir_checks[k].path
       IN  dir_checks' =
             IF path \notin fs_dirs
             THEN [dir_checks EXCEPT ![k].pc = "done",
                                     ![k].error_count = @ \cup {path}]
             ELSE IF HasEntries(CurrentFs, path)
             THEN [dir_checks EXCEPT ![k].pc = "done"]
             ELSE [dir_checks EXCEPT ![k].pc = "rmdir"]
    /\ UNCHANGED <<fs_dirs, rmdir_log>>
    /\ CheckStep

\* `path.rmdir()`, `deleted_count += 1` and the call for path.parent; rmdir
\* raises an OSError for a directory that is gone or not empty.
CheckRmdir(k) ==
    /\ dir_checks[k].pc = "rmdir"
    /\ LET path == dir_checks[k].path
       IN  IF path \notin fs_dirs \/ HasEntries(CurrentFs, path)
           THEN /\ dir_checks' = [dir_checks EXCEPT ![k].pc = "done",
                                                    ![k].error_count = @ \cup {path}]
                /\ UNCHANGED <<fs_dirs, rmdir_log>>
           ELSE /\ fs_dirs' = fs_dirs \ {path}
                /\ rmdir_log' = Append(rmdir_log, [path |-> path, by |-> k])
                /\ dir_checks' = [dir_checks EXCEPT ![k].pc = "is_dir",
                                                    ![k].path = DirParent(path),
                                                    ![k].deleted_count = @ \cup {path}]
    /\ CheckStep

InitChecks ==
    /\ knowledge_base = KnowledgeBase(<<>>, <<>>)
    /\ user_profiles = {}
    /\ response = NoResponse
    /\ plan = NoPlan
    /\ installed_services = {}
    /\ NothingValidated
    /\ PipelineIdle
    /\ CacheIdle
    /\ RegistryIdle
    /\ failed_calls = {}
    /\ AiCacheIdle
    /\ ProfileIdle
    /\ WindowIdle
    /\ ScanIdle
    /\ fs_dirs \in DirSets
    /\ fs_files \in SUBSET {f \in Files : FileDir(f) \in fs_dirs}
    /\ locked = {}
    /\ junk_files_report = NoEntries
    /\ deep_cleanup_plan = NoEntries
    /\ cleaner_todo = NothingToDo
    /\ deleted = {}
    /\ failed_deletions = {}
    /\ deep_summary = Nothing
    /\ deep_removed = {}
    /\ \E o \in CheckOrders :
         dir_checks = [k \in DOMAIN o |-> DirCheck(o[k], "is_dir", {}, {})]
    /\ rmdir_log = <<>>

NextChecks ==
    \E k \in DOMAIN dir_checks : CheckIsDir(k) \/ CheckIterdir(k) \/ CheckRmdir(k)

SpecChecks == InitChecks /\ [][NextChecks]_vars

----------------------------------------------------------------------------
(* find_junk_files_deep when scans raise and files are empty *)

\* Cleanup rules with a category of two paths: a directory measured as a
\* whole and a mask, and a category of one mask with an age threshold.
SCAN_RULES ==
    [app_cache |-> [paths |-> {[dir |-> TEMP, mask |-> ""],
                               [dir |-> TEMPLATES, mask |-> "*.log"]},
                    age_days |-> 0],
     old_files |-> [paths |-> {[dir |-> CACHE, mask |-> "*.*"]}, age_days |-> 30]]

ScanPaths == UNION {SCAN_RULES[c].paths : c \in DOMAIN SCAN_RULES}

\* stat.st_size and os.path.getsize: 0 for an empty file.
SizeOnDisk(f, empty) == IF f \in empty THEN 0 ELSE FileSize(f)

RECURSIVE TotalSize(_, _)
TotalSize(files, empty) ==
    IF files = {} THEN 0
    ELSE LET f == CHOOSE x \in files : TRUE
         IN  SizeOnDisk(f, empty) + TotalSize(files \ {f}, empty)

\* _calculate_dir_size_safe: 0 for a path that is no directory, or the sizes
\* of the files below it added up.
CalculateDirSizeSafe(fs, d, empty) ==
    IF d \notin fs.dirs THEN 0
    ELSE TotalSize({f \in fs.files : IsUnder(FileDir(f), d)}, empty)

\* As ScannedPaths, with a gather that raises the first exception of a scan.
ScannedPaths_FirstErrorAborts(paths, raising) ==
    IF paths \cap raising # {} THEN {} ELSE paths

\* The scan results of a rule that _scan_rule uses: asyncio.gather with
\* return_exceptions=True, and `if isinstance(result, Exception): continue`.
ScannedPaths(paths, raising) == paths \ raising

\* What a path that is scanned adds to the report of its rule.
PathFiles(fs, p, age_days) ==
    IF p.mask = "" THEN {} ELSE FindFilesByMask(fs, p.dir, p.mask, age_days)
PathFolders(fs, p, empty) ==
    IF p.mask = "" /\ CalculateDirSizeSafe(fs, p.dir, empty) > 0 THEN {p.dir} ELSE {}
PathSize(fs, p, age_days, empty) ==
    IF p.mask = "" THEN CalculateDirSizeSafe(fs, p.dir, empty)
    ELSE TotalSize(FindFilesByMask(fs, p.dir, p.mask, age_days), empty)

RECURSIVE PathsSize(_, _, _, _)
PathsSize(fs, paths, age_days, empty) ==
    IF paths = {} THEN 0
    ELSE LET p == CHOOSE x \in paths : TRUE
         IN  PathSize(fs, p, age_days, empty) + PathsSize(fs, paths \ {p}, age_days, empty)

\* _scan_rule: total_size, files_to_delete and folders_to_clean of the
\* report of a rule, from the scans of its paths that did not raise.
ScanRuleReport(fs, rule, raising, empty) ==
    LET used == ScannedPaths(rule.paths, raising)
    IN  [total_size |-> PathsSize(fs, used, rule.age_days, empty),
         files_to_delete |-> UNION {PathFiles(fs, p, rule.age_days) : p \in used},
         folders_to_clean |-> UNION {PathFolders(fs, p, empty) : p \in used}]

\* find_junk_files_deep: the results that are exceptions are logged and
\* left out, and so are the reports whose total_size is 0.
JunkSummaryOf(fs, input) ==
    LET scanned == DOMAIN SCAN_RULES \ input.raising_categories
        report(c) == ScanRuleReport(fs, SCAN_RULES[c], input.raising_paths,
                                    input.empty_files)
    IN  [c \in {x \in scanned : report(x).total_size > 0} |-> report(c)]

\* find_junk_files_deep is called and returns.
FindJunkFilesDeepRaising ==
    /\ scan_outcome.pc = "idle"
    /\ \E categories \in SUBSET DOMAIN SCAN_RULES, paths \in SUBSET ScanPaths,
          empty \in SUBSET fs_files :
         /\ scan_input' = ScanInput(categories, paths, empty)
         /\ scan_outcome' =
              ScanOutcome("returned",
                          JunkSummaryOf(CurrentFs, ScanInput(categories, paths, empty)))
    /\ UNCHANGED <<cleaner_vars, cache_vars, registry_vars, failed_calls, ai_vars,
                   profile_vars, window_vars, checks_vars, validation_vars, pipeline_vars,
                   knowledge_base, user_profiles, response, plan>>

\* The junk summary is put in the session and the next discovery can start.
ScanStored ==
    /\ scan_outcome.pc = "returned"
    /\ scan_outcome' = ScanOutcome("idle", <<>>)
    /\ scan_input' = ScanInput({}, {}, {})
    /\ UNCHANGED <<cleaner_vars, cache_vars, registry_vars, failed_calls, ai_vars,
                   profile_vars, window_vars, checks_vars, validation_vars, pipeline_vars,
                   knowledge_base, user_profiles, response, plan>>

InitScan ==
    /\ knowledge_base = KnowledgeBase(<<>>, <<>>)
    /\ user_profiles = {}
    /\ response = NoResponse
    /\ plan = NoPlan
    /\ installed_services = {}
    /\ NothingValidated
    /\ PipelineIdle
    /\ CacheIdle
    /\ RegistryIdle
    /\ failed_calls = {}
    /\ AiCacheIdle
    /\ ProfileIdle
    /\ WindowIdle
    /\ ChecksIdle
    /\ ScanIdle
    /\ fs_dirs \in DirSets
    /\ fs_files \in SUBSET {f \in Files : FileDir(f) \in fs_dirs}
    /\ locked = {}
    /\ junk_files_report = NoEntries
    /\ deep_cleanup_plan = NoEntries
    /\ cleaner_todo = NothingToDo
    /\ deleted = {}
    /\ failed_deletions = {}
    /\ deep_summary = Nothing
    /\ deep_removed = {}

NextScan == FindJunkFilesDeepRaising \/ ScanStored

SpecScan == InitScan /\ [][NextScan]_vars

----------------------------------------------------------------------------
(* Claims about the validator *)

Returned == passes >= 1 /\ outcome = "returned"
OutItems == plan.action_plan.items
InItems == submitted.action_plan.items
OutEntries == plan.cleanup_plan.entries
InEntries == submitted.cleanup_plan.entries

\* The rules of the rule set that are marked critical.
CriticalRules == {knowledge_base.optimization_rules[i] : i \in DOMAIN knowledge_base.optimization_rules}
                    \cap {r \in OptimizationRule : r.safety = "critical"}

\* C1: a validated action plan has no item whose id, compared
\* case-insensitively, is the id of a rule marked critical in the rule set
\* the validator was built from, and the items of the plan whose id no rule
\* names are kept.
C1_NoCriticalIdInOutput ==
    Returned =>
        /\ \A i \in DOMAIN OutItems : \A r \in CriticalRules :
              Lower(Str(OutItems[i].id)) # Lower(r.id)
        /\ \A i \in DOMAIN InItems :
              (IsWellFormedAction(InItems[i]) /\ Str(InItems[i].id) = "Spooler")
                  => \E j \in DOMAIN OutItems : OutItems[j] = InItems[i]

IsProfileRelevant(id) ==
    Lower(Str(id)) \in ProfileRelevantItems(knowledge_base, user_profiles)
IsDisableOrRemove(a) == Lower(a) \in {"disable", "remove"}

\* C3 as stated: a validated action plan has no Disable or Remove action, in
\* any spelling of the action value and of the id, on an id whose rule lists
\* one of the active profiles; the other actions on such ids are kept.
C3_NoDisableOfProfileRelevant ==
    Returned =>
        /\ \A i \in DOMAIN OutItems :
              ~ (IsDisableOrRemove(OutItems[i].action) /\ IsProfileRelevant(OutItems[i].id))
        /\ \A i \in DOMAIN InItems :
              ( /\ IsWellFormedAction(InItems[i])
                /\ IsProfileRelevant(InItems[i].id)
                /\ ~ IsDisableOrRemove(InItems[i].action)
                /\ Lower(Str(InItems[i].id)) \notin CriticalItems(knowledge_base) )
                  => \E j \in DOMAIN OutItems : OutItems[j] = InItems[i]

\* C3 as amended: a validated action plan has no item whose action value is
\* exactly 'disable' or 'remove' on an id, in any letter case, whose rule
\* lists one of the active profiles; an item with any other action value
\* (another spelling of Disable included) on such an id is kept unless the
\* id is critical.
C3_NoLowercaseDisableOfProfileRelevant ==
    Returned =>
        /\ \A i \in DOMAIN OutItems :
              ~ ( /\ OutItems[i].action \in {"disable", "remove"}
                  /\ IsProfileRelevant(OutItems[i].id) )
        /\ \A i \in DOMAIN InItems :
              ( /\ IsWellFormedAction(InItems[i])
                /\ IsProfileRelevant(InItems[i].id)
                /\ InItems[i].action \notin {"disable", "remove"}
                /\ Lower(Str(InItems[i].id)) \notin CriticalItems(knowledge_base) )
                  => \E j \in DOMAIN OutItems : OutItems[j] = InItems[i]

C3_Witness ==
    /\ Returned
    /\ IsProfileRelevant(JsonString("WSEARCH"))
    /\ InItems = <<WellFormedItem(JsonString("WSEARCH"), "disable"),
                   WellFormedItem(JsonString("WSEARCH"), "Disable")>>
    /\ OutItems = <<WellFormedItem(JsonString("WSEARCH"), "Disable")>>

WellFormedDecision(d) == d.kind = "dict" /\ d.has_clean

SensitiveProfileActive == user_profiles \cap SENSITIVE_PROFILES # {}
EffectiveCleanupRules == CleanupRulesDict(knowledge_base.cleanup_rules)
IsLowSafety(c) ==
    c \in DOMAIN EffectiveCleanupRules /\ EffectiveCleanupRules[c].safety = "low"
IsKnownCategory(c) ==
    \E i \in DOMAIN knowledge_base.cleanup_rules :
        knowledge_base.cleanup_rules[i].category_id = c
AsksToClean(entries, c) ==
    c \in DOMAIN entries /\ WellFormedDecision(entries[c]) /\ entries[c].clean

\* C5: with a sensitive profile active, the validated cleanup plan has no
\* entry with clean = true for a category whose rule has safety 'low'; such
\* an entry of the input is in the output with clean = false.
C5_LowSafetyNotCleanedForSensitive ==
    (Returned /\ SensitiveProfileActive) =>
        \A c \in PlanCategories :
            IsLowSafety(c) =>
                /\ ~ AsksToClean(OutEntries, c)
                /\ AsksToClean(InEntries, c) =>
                      /\ c \in DOMAIN OutEntries
                      /\ WellFormedDecision(OutEntries[c])
                      /\ OutEntries[c].clean = FALSE

C5_Witness ==
    /\ Returned /\ SensitiveProfileActive
    /\ user_profiles = {"Developer", "Gamer"}
    /\ IsLowSafety("pip_cache")
    /\ AsksToClean(InEntries, "pip_cache")
    /\ "pip_cache" \in DOMAIN OutEntries
    /\ OutEntries["pip_cache"] = Decision(FALSE, "")

HasBothFields(p) ==
    p.kind = "dict" /\ {"action_plan", "cleanup_plan"} \subseteq p.keys
HasTypedFields(p) ==
    HasBothFields(p) /\ p.action_plan.is_list /\ p.cleanup_plan.is_dict

\* C4: validating a validated plan changes nothing, in the action plan and
\* in the cleanup plan.
C4_ValidateIdempotent ==
    (passes >= 2 /\ outcome = "returned") => plan = previous

C4_Witness ==
    /\ passes = 2 /\ outcome = "returned"
    /\ plan = previous
    /\ Len(InItems) = 2 /\ Len(OutItems) = 1
    /\ AsksToClean(InEntries, "pip_cache")
    /\ "pip_cache" \in DOMAIN OutEntries /\ OutEntries["pip_cache"] = Decision(FALSE, "")
    /\ AsksToClean(InEntries, "unknown_cache")
    /\ "unknown_cache" \notin DOMAIN OutEntries

\* C7 as stated: validate raises only for a plan that is no record with the
\* two fields, and returns for every plan that has them.
C7_RaisesOnlyWithoutTheTwoFields ==
    passes >= 1 => (validate_raised <=> ~ HasBothFields(previous))

\* C7 as amended: validate raises exactly when the plan is no dict with the
\* two keys, or its 'action_plan' is no list, or its 'cleanup_plan' is no
\* dict; whatever the items and decisions of a list and a dict are
\* (non-dict items, items lacking keys, non-string ids), it returns.
C7_RaisesExactlyOnWrongTypes ==
    passes >= 1 => (validate_raised <=> ~ HasTypedFields(previous))

C7_Witness ==
    /\ passes = 1 /\ ~ validate_raised /\ outcome = "returned"
    /\ previous.action_plan.items = <<NonDictItem, WellFormedItem(JsonNumber("7"), "disable")>>
    /\ "pip_cache" \in DOMAIN previous.cleanup_plan.entries
    /\ previous.cleanup_plan.entries["pip_cache"] = NonDictDecision
    /\ OutItems = <<WellFormedItem(JsonNumber("7"), "disable")>>

\* C8: for a structurally invalid answer (no JSON, no JSON object, a key
\* missing, 'action_plan' no list, an item lacking type/id/action)
\* generate_distillation_plan returns the empty plan and logs one error.
StructurallyInvalidResponse ==
    \/ response.kind = "not_json"
    \/ /\ response.kind \in {"fenced", "plain", "truncated"}
       /\ \/ ~ HasBothFields(response.value)
          \/ ~ response.value.action_plan.is_list
          \/ \E i \in DOMAIN response.value.action_plan.items :
                ~ IsWellFormedAction(response.value.action_plan.items[i])
C8_EmptyPlanOnInvalidResponse ==
    (outcome # "none" /\ StructurallyInvalidResponse) =>
        /\ outcome = "returned"
        /\ plan = EmptyPlan
        /\ error_logs = 1

----------------------------------------------------------------------------
(* Claims about a run of the pipeline *)

\* C2: no action item handed to execute_action_plan has an id that a rule of
\* the full knowledge base marks critical, whatever the relevant_profiles of
\* that rule are.
C2_NoCriticalActionReachesExecutor ==
    executed.called =>
        \A i \in DOMAIN executed.items :
            \A j \in DOMAIN knowledge_base.optimization_rules :
                knowledge_base.optimization_rules[j].safety = "critical"
                    => Lower(Str(executed.items[i].id))
                          # Lower(knowledge_base.optimization_rules[j].id)

CommandRan == restore_result # NoCommand
RunAborted ==
    /\ pc = "failed"
    /\ raised_tasks = {"create_restore_point"}
    /\ stage_log = <<"restore_point">>
    /\ effects = {}
    /\ ~ executed.called

\* C9 as stated: when the restore point command reports failure in any way
\* (exception, non-zero exit code, error output) the run aborts with an
\* error before profiling, any service or app action and any deletion.
C9_AbortsOnAnyReportedFailure ==
    ( /\ CommandRan
      /\ \/ restore_result.raised
         \/ restore_result.returncode # 0
         \/ restore_result.stderr # "" )
        => RunAborted

RecognisedFailure ==
    \/ restore_result.raised
    \/ /\ restore_result.returncode # 0
       /\ restore_result.stderr \in
            {ENGLISH_FAILURE, "Ne udalos sozdat tochku vosstanovleniya"}

\* C9 as amended: the run aborts with an error before profiling, any service
\* or app action and any deletion when the restore point command raises, or
\* exits with a non-zero code and an error output holding one of the two
\* recognised messages (the Russian one in any letter case); after any
\* other outcome of the command the run is not aborted by this stage.
C9_AbortsOnRecognisedFailure ==
    CommandRan =>
        IF RecognisedFailure THEN RunAborted
        ELSE "create_restore_point" \in finished /\ "create_restore_point" \notin raised_tasks

C9_Witness ==
    /\ restore_result =
          [raised |-> FALSE, returncode |-> 1,
           stderr |-> "Ne udalos sozdat tochku vosstanovleniya"]
    /\ RunAborted

\* C10: the stages of a run start in the order restore point, profiling,
\* data collection, plan generation, execution, report, follow-up, each at
\* most once, and a stage has started only if every sub-task of the stages
\* before it has completed.
C10_StagesStrictlyOrdered ==
    /\ Len(stage_log) <= Len(STAGES)
    /\ \A k \in DOMAIN stage_log : stage_log[k] = STAGES[k]
    /\ \A k \in DOMAIN stage_log : \A m \in 1..(k - 1) :
          /\ StageTasks(STAGES[m]) \subseteq finished
          /\ StageTasks(STAGES[m]) \cap running = {}

C10_Witness ==
    /\ pc = "done"
    /\ stage_log = STAGES
    /\ executed.called /\ Len(executed.items) = 2
    /\ cancel_requested
    /\ running = {}
    /\ background_tasks = 1

\* C11: when is_cancelled returns true at a _check_cancellation, that check
\* is the last one of the run; the stage before it has finished all its
\* sub-tasks and no stage after it has started (no action execution or
\* cleanup after a check before the execution stage, no report, no
\* follow-up task); the run has returned the cancelled marker, not a report
\* and not an error.
C11_CancelledAtBoundaryStopsRun ==
    \A k \in DOMAIN checked :
        checked[k] =>
            /\ k = Len(checked)
            /\ pc = "cancelled" /\ result = "cancelled"
            /\ Len(stage_log) = k /\ stage_log[k] = STAGES[k]
            /\ StageTasks(STAGES[k]) \subseteq finished
            /\ running = {} /\ raised_tasks = {}
            /\ "generate_final_report" \notin finished
            /\ background_tasks = 0
            /\ "execution" \notin {stage_log[m] : m \in DOMAIN stage_log}
                  => (~ executed.called /\ ~ script_result.ran
                      /\ effects \cap {"file_deletion", "os_action"} = {})

C11_Witness ==
    /\ checked = <<FALSE, FALSE, FALSE, FALSE, TRUE>>
    /\ result = "cancelled"
    /\ executed.called /\ script_result.ran
    /\ EXECUTION_TASKS \subseteq finished

\* C12: no stage starts while the cancellation predicate is true, the
\* restore point stage and the report stage included.
C12_NoStageStartsWhenCancelled ==
    [][cancel_requested => stage_log' = stage_log]_vars

\* C13: the percent values passed to progress_callback in a run never
\* decrease and lie in 0..100.
C13_ProgressMonotone ==
    \A i, j \in DOMAIN progress :
        /\ progress[i] \in 0..100
        /\ i <= j => progress[i] <= progress[j]

C13_Witness ==
    /\ pc = "done"
    /\ progress = <<5, 10, 15, 25, 40, 55, 70, 75, 85, 95, 100>>
    /\ CLEANUP_TASKS \subseteq finished

\* C14: with an empty action plan the action stage runs no script, reports
\* its completion through progress_callback and stores a summary with empty
\* lists.
C14_EmptyPlanStageReportsCompletion ==
    ("action_plan" \in finished /\ ~ executed.called) =>
        /\ ~ script_result.ran
        /\ "os_action" \notin effects
        /\ debloat_summary.done = <<>> /\ debloat_summary.errors = 0
        /\ \E i \in DOMAIN progress : progress[i] = ProgressPercent("components_done")

\* The items of the executed plan the script acts on, and those of them
\* whose service does not exist on the host, so that the operation fails.
ScriptItems ==
    {i \in DOMAIN executed.items : YieldsScriptLine(executed.items[i])}
FailingItems ==
    {i \in ScriptItems :
        Lower(Str(executed.items[i].id)) \notin {Lower(n) : n \in installed_services}}

\* C15: when the script has run and exactly one action of a batch of two or
\* more fails, the action task ends without an exception, the other actions
\* are recorded as completed and the failing one is recorded as an error,
\* not as completed.
C15_PerItemFaultIsolation ==
    ( /\ script_result.ran /\ ~ script_result.raised
      /\ Cardinality(ScriptItems) >= 2
      /\ Cardinality(FailingItems) = 1 )
        => /\ "action_plan" \in finished /\ "action_plan" \notin raised_tasks
           /\ debloat_summary.errors = 1
           /\ \A i \in ScriptItems :
                 (i \in FailingItems) <=>
                    (\A m \in DOMAIN debloat_summary.done :
                        debloat_summary.done[m] # Str(executed.items[i].id))

\* C16: no operation is attempted on a service that does not exist on the
\* host: the script that is run has no line for such an action.
C16_AbsentServicesSkipped ==
    script_result.ran =>
        \A i \in ScriptItems :
            executed.items[i].type = "service" => i \notin FailingItems

----------------------------------------------------------------------------
(* Claims about the cleanup engine *)

\* C17: no cleanup path deletes a file whose extension is in
\* PROTECTED_EXTENSIONS, whatever mask, age threshold or plan applies.
C17_NoProtectedExtensionDeleted ==
    \A f \in deleted \cap Files : Lower(FileSuffix(f)) \notin PROTECTED_EXTENSIONS

\* C18: no operation of the cleanup engine removes a directory whose
\* lower-cased name is in PROTECTED_SYSTEM_FOLDERS.
C18_NoProtectedFolderRemoved ==
    \A d \in deleted \cap Dirs : Lower(DirName(d)) \notin PROTECTED_SYSTEM_FOLDERS

\* C19: when the cleanup stage is over, for every category decided
\* clean = true every file and every directory content the junk-file report
\* lists for it is deleted or counted as a failed deletion.
C19_ReportedJunkOfCleanCategoriesDeleted ==
    cleaner_todo.phase = "done" =>
        \A c \in DOMAIN deep_cleanup_plan \cap DOMAIN junk_files_report :
            deep_cleanup_plan[c].clean = "true" =>
                /\ \A f \in junk_files_report[c].files_to_delete :
                       f \notin fs_files \/ f \in failed_deletions
                /\ \A d \in junk_files_report[c].folders_to_clean :
                       \A f \in fs_files :
                           IsUnder(FileDir(f), d) => f \in failed_deletions

\* C20: after a full cleanup stage every directory that was cleaned as a
\* whole-directory entry still exists.
C20_CleanedDirectoriesStillExist ==
    cleaner_todo.phase = "done" => cleaner_todo.cleaned \subseteq fs_dirs

\* C21: scanning a category whose configured path does not exist finds
\* nothing, so the category is absent from the junk-file report, while a
\* category of the same scan in which something is found is reported.
C21_MissingPathYieldsNoCategory ==
    cleaner_todo.phase = "scanned" =>
        \A c \in DOMAIN CLEANUP_RULES :
            /\ (\A p \in CLEANUP_RULES[c].paths : p.dir \notin fs_dirs)
                  => c \notin DOMAIN junk_files_report
            /\ (\E p \in CLEANUP_RULES[c].paths :
                   /\ p.dir \in fs_dirs
                   /\ \E f \in fs_files :
                        IF p.mask = ""
                        THEN IsUnder(FileDir(f), p.dir)
                        ELSE f \in FindFilesByMask(CurrentFs, p.dir, p.mask,
                                                   CLEANUP_RULES[c].age_days))
                  => c \in DOMAIN junk_files_report

C21_Witness ==
    /\ cleaner_todo.phase = "scanned"
    /\ TEMPLATES \notin fs_dirs
    /\ "old_files" \notin DOMAIN junk_files_report
    /\ "app_cache" \in DOMAIN junk_files_report

----------------------------------------------------------------------------
(* Claims about the caches and the follow-up tasks *)

\* C22: a data-collection request made less than 5 minutes after the scan
\* that produced the cached components reuses them, and a request made 5
\* minutes or more after it (or with nothing cached) starts a fresh
\* enumeration.
C22_CacheValidForFiveMinutes ==
    \A i \in 1..Len(requests) :
        requests[i].reused <=>
            /\ requests[i].held.present
            /\ requests[i].at - requests[i].held.captured < 5

\* The step in which shutdown returns.
ShutdownReturning == shutdown_call.pc # "returned" /\ shutdown_call'.pc = "returned"

C24_FollowUpNeverAbandoned ==
    /\ \A k \in 1..MaxRuns :
         (k \in tracked /\ follow_ups[k].loop = "worker")
             ~> (follow_ups[k].state \in {"done", "failed"} /\ k \notin tracked)
    /\ (close_wait = "waiting") ~> (close_wait = "closed")

\* C25: whatever the order of additions, removals and reads, no task that
\* is still to complete is missing from the registry, and no completed task
\* stays in it.
C25_RegistrySafeUnderInterleaving ==
    /\ [](\A k \in 1..MaxRuns :
             follow_ups[k].state \in {"created", "suspended"} => k \in tracked)
    /\ \A k \in 1..MaxRuns :
         (follow_ups[k].state \in {"done", "failed"}) ~> (k \notin tracked)

\* C26: no failure of a branch of the profiling or of the data-collection
\* fan-out (hardware, installed software, services, packaged apps, junk
\* files) reaches the stage: none of them makes the run fail.
C26_FanOutBranchFailureCaptured ==
    raised_tasks \cap (PROFILE_TASKS \cup COLLECT_TASKS) = {}

\* C27: a failed reasoning-service call of the pipeline (profile
\* determination, plan generation, report generation) ends the run with an
\* error raised to the caller: no report is returned and no stage follows.
C27_FailedAiCallFailsTheRun ==
    failed_calls # {} => (pc = "failed" /\ result = "error")

\* C28: item-level failures never escalate: a run fails only by a task that
\* raised, the action task raises only when the script could not be run at
\* all (not for an exit code that reports failed actions), and no cleanup
\* task whose summary counts failed deletions or removals has raised; such
\* a run goes through all stages and returns the report.
C28_ItemFailuresDoNotEscalate ==
    /\ pc = "failed" => raised_tasks # {}
    /\ "action_plan" \in raised_tasks => script_result.raised
    /\ (script_result.ran /\ ~ script_result.raised) => "action_plan" \in finished
    /\ cleanup_errors \cap raised_tasks = {}
    /\ cleanup_errors \subseteq finished

C28_Witness ==
    /\ pc = "done"
    /\ result = "report"
    /\ debloat_summary.errors = 1
    /\ script_result.returncode = 1
    /\ cleanup_errors = CLEANUP_TASKS \cup {"empty_folders"}

\* The files a clean category of the cleanup plan lists, by name or by a
\* directory to clean that they lie below.
ListedForCleaning ==
    {f \in Files :
        \E c \in DOMAIN deep_cleanup_plan :
            /\ Truthy(deep_cleanup_plan[c].clean)
            /\ \/ f \in deep_cleanup_plan[c].files_to_delete
               \/ \E d \in deep_cleanup_plan[c].folders_to_clean :
                    IsUnder(FileDir(f), d)}

C29_CountIsFilesDeleted ==
    cleaner_todo.parents =>
        deep_summary.deleted_files_count = Cardinality(deep_removed \cap Files)

C29_SizeIsSizeDeleted ==
    cleaner_todo.parents =>
        deep_summary.cleaned_size_bytes = SizeOf(deep_removed \cap Files)

C29_NoErrorsWhenAllSucceed ==
    (cleaner_todo.parents /\ failed_deletions = {}) => deep_summary.errors = 0

C29_UnlistedFilesKept ==
    deep_removed \cap Files \subseteq ListedForCleaning

\* C29: the summary of perform_deep_cleanup counts exactly what was deleted:
\* deleted_files_count is the number of files it deleted, cleaned_size_bytes
\* the sum of their sizes, errors is 0 when no deletion failed, and it
\* deleted no file that no clean category of the plan lists.
C29_DeepSummaryCountsWhatWasDeleted ==
    /\ C29_CountIsFilesDeleted
    /\ C29_SizeIsSizeDeleted
    /\ C29_NoErrorsWhenAllSucceed
    /\ C29_UnlistedFilesKept

\* What a step of the response cache has to respect.  A call that makes no
\* model call was made with use_cache, found a text stored less than
\* ai_cache_ttl seconds before, returns that text and leaves the cache alone.
\* A call that goes to the model was made without use_cache or found no such
\* text.  A call that ends with a fresh text returns the text of its model
\* call and, with use_cache, has stored it with the time of the store;
\* without use_cache, and when the response is blocked or the service
\* fails, the cache is left alone.
C30_CallAnswered ==
    /\ requests_made' = requests_made + 1 =>
          \/ call_count' = call_count
          \/ call_count' = call_count + 1 /\ ai_requests' # ai_requests
    /\ (requests_made' = requests_made + 1 /\ call_count' = call_count) =>
          LET r == last_returned'
              cached == ai_cache[PromptHash(r.prompt)]
          IN  /\ r.use_cache
              /\ cached.present
              /\ ai_time - cached.timestamp < ai_cache_ttl
              /\ r.outcome = "cached"
              /\ r.text = cached.text
              /\ ai_cache' = ai_cache
    /\ \A r \in ai_requests' \ ai_requests :
          LET cached == ai_cache[PromptHash(r.prompt)]
          IN  /\ ~ (/\ r.use_cache
                    /\ cached.present
                    /\ ai_time - cached.timestamp < ai_cache_ttl)
              /\ r.text = call_count'
              /\ ai_cache' = ai_cache

C30_CallEnded ==
    \A r \in ai_requests \ ai_requests' :
        /\ last_returned'.prompt = r.prompt
        /\ last_returned'.outcome \in {"fresh", "blocked", "error"}
        /\ last_returned'.outcome = "fresh" =>
              /\ last_returned'.text = r.text
              /\ IF r.use_cache
                 THEN ai_cache' = [ai_cache EXCEPT ![PromptHash(r.prompt)] =
                                       Cached(r.text, ai_time)]
                 ELSE ai_cache' = ai_cache
        /\ last_returned'.outcome # "fresh" => ai_cache' = ai_cache

\* C30: with caching enabled, a request for a prompt whose response was
\* stored less than ai_cache_ttl seconds before returns the stored text and
\* makes no model call; a request after that time, or with use_cache false,
\* makes a new model call, and its fresh text is returned and, with
\* use_cache only, stored; a blocked response is never stored.
C30_AiResponseCache == [][C30_CallAnswered /\ C30_CallEnded]_vars

\* The text stored at the second model call is returned from the cache one
\* second before it expires.
C30_Witness ==
    /\ last_returned.outcome = "cached"
    /\ last_returned.text = 2
    /\ call_count = 2
    /\ ai_cache[PromptHash(last_returned.prompt)].text = 2
    /\ ai_time - ai_cache[PromptHash(last_returned.prompt)].timestamp = ai_cache_ttl - 1

----------------------------------------------------------------------------
(* Claims about the profile, the window and the cleanup engine *)

\* The answer holds a non-empty list of strings under "profiles".
ProvidesProfiles(resp) ==
    /\ resp.kind \in {"fenced", "plain", "truncated"}
    /\ resp.value.shape = "object"
    /\ resp.value.has_profiles
    /\ resp.value.profiles.is_list
    /\ resp.value.profiles.items # <<>>
    /\ \A i \in DOMAIN resp.value.profiles.items : resp.value.profiles.items[i].is_str

\* C31: for every answer of the reasoning service determine_user_profile
\* never raises and returns the non-empty list of strings the answer
\* provides, or ["HomeUser"].
C31_ProfilesNonEmptyNeverRaises ==
    profile_call.pc # "idle" =>
        /\ profile_call.pc = "returned"
        /\ profile_call.profiles # <<>>
        /\ IF ProvidesProfiles(profile_response)
           THEN profile_call.profiles = Texts(profile_response.value.profiles.items)
           ELSE profile_call.profiles = <<"HomeUser">>

\* C32: a worker that was cancelled while running delivers neither its
\* finished nor its error signal to the window, and when it has ended and
\* the timer of the cancel has fired, with no later run started, the window
\* shows the home page with the start button enabled.
C32_CancelledRunDeliversNoSignal ==
    \A k \in DOMAIN workers :
        workers[k].is_cancelled =>
            /\ \A i \in DOMAIN signals : signals[i].worker # k
            /\ \A i \in DOMAIN delivered : delivered[i].worker # k
            /\ (/\ k = Len(workers)
                /\ workers[k].pc = "ended"
                /\ window.timers = 0
                /\ signals = <<>>)
                   => (window.page = "home" /\ window.start_enabled)

C33_PassesUncleanCategory ==
    /\ cleaner_todo.deep # <<>>
    /\ cleaner_todo'.deep = Tail(cleaner_todo.deep)
    /\ deep_cleanup_plan[Head(cleaner_todo.deep)].clean # "true"

\* The parents of the files that the categories decided clean = true list.
C33_ParentsOfCleanCategories ==
    {FileDir(f) : f \in UNION {deep_cleanup_plan[c].files_to_delete :
                                 c \in {x \in DOMAIN deep_cleanup_plan :
                                          deep_cleanup_plan[x].clean = "true"}}}

\* C33: perform_deep_cleanup leaves a category whose decision is not
\* clean = true untouched: passing it deletes no file, cleans no directory
\* and changes no counter of the summary, and the directories queued for the
\* empty-directory check are parents of files of clean = true categories only.
C33_UncleanCategoryUntouched ==
    [][/\ C33_PassesUncleanCategory =>
            UNCHANGED <<fs_files, fs_dirs, deleted, failed_deletions,
                        deep_summary, deep_removed>>
       /\ PotentiallyEmptyDirs(deep_cleanup_plan) \subseteq C33_ParentsOfCleanCategories]_vars

\* C34: in the execution stage the empty-directory reclamation has started
\* only if the standard and the plan-driven cleanup have both completed
\* (and neither raised), and the report stage has started only if the
\* reclamation and the action execution have both completed.
C34_ReclamationAfterCleanupReportAfterBoth ==
    /\ "empty_folders" \in running \cup finished =>
          /\ CLEANUP_TASKS \subseteq finished
          /\ CLEANUP_TASKS \cap (running \cup raised_tasks) = {}
    /\ (\E k \in DOMAIN stage_log : stage_log[k] = "report") =>
          /\ {"empty_folders", "action_plan"} \subseteq finished
          /\ {"empty_folders", "action_plan"} \cap running = {}

C34_Witness ==
    /\ pc = "report"
    /\ "generate_final_report" \in running
    /\ "empty_folders" \in finished
    /\ cleanup_errors = {"deep_cleanup", "empty_folders"}
    /\ executed.called

\* C35: the concurrent checks of _cleanup_empty_dirs do not interfere: a
\* directory is removed at most once and counted as deleted by one check
\* only, and no check counts an error for a directory that another check
\* removed.
C35_ConcurrentChecksDoNotInterfere ==
    /\ \A i, j \in DOMAIN rmdir_log : rmdir_log[i].path = rmdir_log[j].path => i = j
    /\ \A k, m \in DOMAIN dir_checks :
          k # m => dir_checks[k].deleted_count \cap dir_checks[m].deleted_count = {}
    /\ \A k \in DOMAIN dir_checks : \A i \in DOMAIN rmdir_log :
          rmdir_log[i].by # k => rmdir_log[i].path \notin dir_checks[k].error_count

\* What the discovery of the state would have returned had no scan raised.
C36_WithoutFailure ==
    JunkSummaryOf(CurrentFs, ScanInput({}, {}, scan_input.empty_files))

\* The findings of a path: the files its mask finds, or the directory when it
\* holds something.
C36_Findings(c, p) ==
    PathFiles(CurrentFs, p, SCAN_RULES[c].age_days)
        \cup PathFolders(CurrentFs, p, scan_input.empty_files)

\* A category whose scan raises is not in the summary, and a category none
\* of whose scans raises is reported as without the failure.
C36_RaisingCategoryAlone ==
    scan_outcome.pc = "returned" =>
        /\ scan_input.raising_categories \cap DOMAIN scan_outcome.report = {}
        /\ \A c \in DOMAIN SCAN_RULES \ scan_input.raising_categories :
              SCAN_RULES[c].paths \cap scan_input.raising_paths = {} =>
                  /\ c \in DOMAIN scan_outcome.report <=> c \in DOMAIN C36_WithoutFailure
                  /\ c \in DOMAIN scan_outcome.report =>
                        scan_outcome.report[c] = C36_WithoutFailure[c]

\* The findings of the paths of category c whose scan does not raise are in
\* the summary.
C36_OtherPathsReported(c) ==
    /\ c \in DOMAIN scan_outcome.report
    /\ \A p \in SCAN_RULES[c].paths \ scan_input.raising_paths :
          C36_Findings(c, p) \subseteq
              scan_outcome.report[c].files_to_delete
                  \cup scan_outcome.report[c].folders_to_clean

\* C36 as stated: a category scan that raises contributes nothing and the
\* other categories are returned as without it, and within a category that
\* is reported without the failure a path whose scan raises does not remove
\* the findings of the other paths.
C36_RaisingScanRemovesNothingElse ==
    /\ C36_RaisingCategoryAlone
    /\ scan_outcome.pc = "returned" =>
          \A c \in DOMAIN C36_WithoutFailure \ scan_input.raising_categories :
              (\E p \in SCAN_RULES[c].paths \ scan_input.raising_paths :
                   C36_Findings(c, p) # {})
                  => C36_OtherPathsReported(c)

\* C36, amended: as stated, for the categories whose remaining findings have
\* a total size above 0; a category whose remaining findings are empty files
\* only is omitted like every category of total size 0.
C36_RaisingScanRemovesNothingOfSize ==
    /\ C36_RaisingCategoryAlone
    /\ scan_outcome.pc = "returned" =>
          \A c \in DOMAIN C36_WithoutFailure \ scan_input.raising_categories :
              PathsSize(CurrentFs, SCAN_RULES[c].paths \ scan_input.raising_paths,
                        SCAN_RULES[c].age_days, scan_input.empty_files) > 0
                  => C36_OtherPathsReported(c)

C36_Witness ==
    /\ scan_outcome.pc = "returned"
    /\ scan_input.raising_categories = {"old_files"}
    /\ scan_input.raising_paths = {[dir |-> TEMP, mask |-> ""]}
    /\ scan_input.empty_files = {}
    /\ "LocalAppData/Temp/junk.tmp" \in fs_files
    /\ "LocalAppData/Cache/desktop.ini" \in fs_files
    /\ DOMAIN scan_outcome.report = {"app_cache"}
    /\ scan_outcome.report["app_cache"].files_to_delete =
          {"LocalAppData/Cache/Templates/old.log"}
    /\ scan_outcome.report["app_cache"].folders_to_clean = {}

\* The files discovery reported for category c: the files its report lists
\* and the files below the directories it lists.
C37_ReportedFor(c) ==
    IF c \notin DOMAIN junk_files_report THEN {}
    ELSE {f \in Files :
            \/ f \in junk_files_report[c].files_to_delete
            \/ \E d \in junk_files_report[c].folders_to_clean : IsUnder(FileDir(f), d)}

\* C37: the plan-driven cleanup deletes only what discovery reported: the
\* files deleted while a category of the validated plan is cleaned are files
\* the junk-file report holds for that category, never files that only the
\* decision of the plan names.
C37_OnlyReportedPathsDeleted ==
    [][(/\ cleaner_todo.deep # <<>>
        /\ cleaner_todo'.deep = Tail(cleaner_todo.deep))
          => (deep_removed' \ deep_removed) \cap Files
                 \subseteq C37_ReportedFor(Head(cleaner_todo.deep))]_vars

\* C38: over any sequence of runs, whenever a data-collection request is
\* served from the component cache, the components it gets come from an
\* enumeration that started less than 5 minutes before the request, also
\* after enumerations that raised.
C38_ServedComponentsAreRecent ==
    \A i \in 1..Len(requests) :
        requests[i].reused =>
            /\ requests[i].held.present
            /\ requests[i].at - requests[i].held.captured < CACHE_TTL_MINUTES

====
